---- MODULE Spec2Model ----
(***************************************************************************)
(* CoinMonitor: the monitor run loop (monitors/base_monitor.py), the       *)
(* supervisor BotRunner (monitor_bot.py), the generic update_config and    *)
(* the watchlist operations of the list-based monitors.                    *)
(*                                                                         *)
(* The specifications of the module:                                      *)
(*   Spec         the run loops of the registered monitors under the       *)
(*                supervisor (run_async, shutdown), with stop() as an      *)
(*                external request; FairSpec adds the scheduler's fairness *)
(*   SpecRestart  Spec plus a caller that awaits run() again on an         *)
(*                instance whose run() has finished                        *)
(*   SpecSd       Spec with every await of shutdown() as a step, the      *)
(*                resources it releases, and the fetches of the /funding   *)
(*                and /coin handlers                                       *)
(*   SpecInit     _initialize_monitors over the entries of a configuration *)
(*   SpecCmd      _config_handler on the registry SpecInit builds          *)
(*   SpecLoop     one funding-rate monitor's run loop cycle by cycle, with  *)
(*                manual checks and update_config beside it                *)
(*   SpecCfg      update_config / get_status on one monitor instance       *)
(*   SpecWl       add_to_watchlist / remove_from_watchlist / check cycles  *)
(*                of one list-based monitor instance                       *)
(*   SpecAlerts   _send_alerts_message building and sending the alert list *)
(*   SpecBoot     run_async from the token test to the first checks        *)
(*   SpecDet      get_funding_rate_alerts under upstream failures, and     *)
(*                what the scheduled and the manual caller report          *)
(*   SpecTick     the scheduled ticks of FundingRateMonitor and            *)
(*                SpotVolumeMonitor against their time buckets             *)
(*   SpecTw       TwitterMonitor's check cycle, the tweets posted and the  *)
(*                add and remove commands beside it                        *)
(*   SpecStop     Spec with stop() callable from task creation on          *)
(*   SpecOi       one symbol of OpenInterestMonitor, cycle after cycle,    *)
(*                with its retained history window                         *)
(*   SpecFr       one call of get_funding_rate_alerts on its data          *)
(*   SpecPos      the history section of format_position_report            *)
(***************************************************************************)
EXTENDS Integers, Sequences, FiniteSets, TLC

\* ------------------------------------------------------------------ bounds
\* Number of monitor instances configured (names 1..NumMonitors).
NumMonitors == 2
\* How many times run() may be awaited on one instance (SpecRestart only).
MaxRuns == 2

Monitors == 1..NumMonitors

VARIABLES
    \* ---- run loop, one entry per monitor (BaseMonitor)
    registry,        \* BotRunner.monitors: the monitors that were constructed
    pc,              \* where the monitor's run() task is
    exit,            \* how run() ended: "none", "return", "exception", "cancelled"
    running,         \* BaseMonitor._running
    session,         \* BaseMonitor.session: "none", "open", "closed"
    created,         \* sessions created by _get_session so far
    closes,          \* session.close() calls made by run()'s finally block
    cancelReq,       \* task.cancel() was called and not yet delivered
    runs,            \* how many times run() was entered
    \* ---- history of stop() requests (observation only)
    stopReq,         \* stop() was called while run() was active with the flag set
    sleepsAfterStop, \* sleeps begun since that request
    \* ---- supervisor (BotRunner.run_async / shutdown)
    sup,             \* where run_async is
    sd,              \* where each shutdown() invocation is
    signalSeen,      \* a SIGINT/SIGTERM was delivered
    \* ---- update_config on one monitor instance (SpecCfg)
    kind,            \* the class of the instance: "funding", "position", "oi"
    attrs,           \* the instance's attributes, by name
    prev,            \* attrs before the last update_config call (history)
    last,            \* the last update_config call and its outcome (history)
    \* ---- watchlist of one list-based monitor instance (SpecWl)
    wkind,           \* the class of the instance: "oi", "ps", "tw"
    watchlist,       \* self.watchlist: [none |-> it is None, l |-> the list]
    symbols,         \* self.symbols
    aliased,         \* self.symbols and self.watchlist are one list object
    invalid_symbols, \* OpenInterestMonitor.invalid_symbols
    watch_ids,       \* TwitterMonitor.watch_ids
    is_first_run,    \* TwitterMonitor.is_first_run
    latest_tweet_ids,\* TwitterMonitor.latest_tweet_ids (the users with an entry)
    cpc,             \* where check() of the instance is
    attempt,         \* _initialize_symbols: the attempt of the retry loop
    discovered,      \* the list the last symbol discovery installed (history)
    cyc,             \* what the cycle under way set out to check (history)
    rt,              \* an add followed at once by a remove (history)
    mid,             \* the last add or remove that succeeded while check() was suspended (history)
    \* ---- the resources shutdown() releases (SpecSd)
    updaterStopped,  \* an updater.stop() call has completed
    updaterStops,    \* updater.stop() calls made
    appStopped,      \* an app.stop() call has completed
    appStops,        \* app.stop() calls made
    appShutdowns,    \* app.shutdown() calls made
    supSession,      \* BotRunner.session: "none", "open", "closing", "closed"
    supCreated,      \* sessions created by BotRunner._get_session
    supCloses,       \* BotRunner.session.close() calls made
    \* ---- _initialize_monitors (SpecInit)
    entries,         \* config["monitors"]: the names, in the order of the file
    enabled,         \* the "enabled" setting of each entry
    bearer_token,    \* the twitter_monitor entry has a bearer_token
    idx,             \* the entry the loop is at
    monitors,        \* BotRunner.monitors: the names that have an instance
    initErr,         \* the exception that escaped _initialize_monitors
    lookup,          \* the last self.monitors.get(name) of a handler
    \* ---- _config_handler (SpecCmd)
    cmd,             \* the /config command being handled, and what became of it
    \* ---- one funding-rate monitor's run loop, cycle by cycle
    lpc,             \* where the monitor's run() task is
    minute,          \* datetime.now().minute
    last_checked_minute, \* FundingRateMonitor.last_checked_minute
    shadow,          \* history: last_checked_minute as the scheduled checks alone set it
    manual,          \* where the manual_check() of a /funding command is
    inflight,        \* history: check() invocations of run() that have not returned
    gap,             \* history: sleeps between the last two check() of run(); -2 before the first check(), -1 before the second
    sleeps,          \* history: sleeps started since the last check() of run() started
    sleepSeq,        \* history: parity of the number of sleeps started
    sleepUses,       \* history: the argument of the last asyncio.sleep
    readSeq,         \* history: parity of the number of reads of self.threshold
    thresholdUses,   \* history: the value the last read of self.threshold gave
    \* ---- _send_alerts_message on one batch of alerts (SpecAlerts)
    nalerts,         \* len(alerts)
    itemLen,         \* len(msg_part) of the items of the batch
    apos,            \* the item the for loop is at
    amsg,            \* message: the items in it, its length, the notice appended
    outbox,          \* the messages send_message delivered
    apc,             \* where _send_alerts_message is
    \* ---- the start of run_async (SpecBoot)
    token,           \* config.json has a non-empty "telegram_token"
    bconfig,         \* the enabled entries of config.json with a class in MONITOR_CLASSES
    boot,            \* where run_async is
    exitStatus,      \* the exit status of the process, -1 while it runs
    built,           \* the monitors constructed
    btasks,          \* the monitors whose run() task was created
    bchecked,        \* the monitors whose check() has run
    bopened,         \* the monitors that opened a session
    \* ---- one funding-rate detection run (SpecDetect)
    origin,          \* who started it: the run loop's check() or /funding
    dpc,             \* where the detection run is
    upstream,        \* history: the upstream failure that happened and the request it hit
    found,           \* the symbols at or over the threshold
    oiFetched,       \* the symbols whose openInterest has arrived
    sendFailed,      \* history: Telegram refused the alert message
    report,          \* what was reported at the end
    \* ---- the scheduled ticks of the two time-bucket monitors (SpecTick)
    tpc,             \* FundingRateMonitor's loop: asleep, or its check() is due
    fresh,           \* the tick falls in a later half-hour window than the one before
    prevMin,         \* history: the minute of the tick before, -1 at the first
    runInv,          \* history: _check_and_send_alerts calls in the run of ticks in this trigger minute
    winInv,          \* history: _check_and_send_alerts calls in this half-hour window
    winTrig,         \* history: a tick of this half-hour window fell on minute 0 or 30
    lastOk,          \* history: the last _check_and_send_alerts call returned
    svpc,            \* SpotVolumeMonitor's loop: asleep, or its check() is due
    hour,            \* datetime.now().hour
    last_checked_hour, \* SpotVolumeMonitor.last_checked_hour
    prevHour,        \* history: the hour of the tick before, -1 at the first
    svRunInv,        \* history: _send_volume_report calls in the run of ticks with hour 8
    \* ---- TwitterMonitor's check cycle (SpecTw)
    twpc,            \* check(): idle, in the loop over the users, sending
    iterl,           \* the list object the for loop iterates
    aliasIter,       \* watch_ids is still that list object
    pos,             \* the loop's index into it
    alerts_to_send,  \* check()'s local list
    tweet_of,        \* the values of latest_tweet_ids, 0 where there is no key
    latest,          \* the id of each user's latest tweet at Twitter, 0 without tweets
    tried,           \* history: the users fetched in this cycle
    owed,            \* history: users with a stored id whose fetch returned another id in this cycle
    alerted,         \* history: the users an alert was sent for in this cycle
    lastRes,         \* history: how the last fetch or send ended
    lastQ,           \* history: the id a user's last successful fetch queued an alert for, else 0
    baseId,            \* history: each user's latest id when a first-run cycle handled it,
                     \* -2 once an alert was sent for the user
    stale,           \* history: a user's first alert was about its baseline tweet
    \* ---- stop() calls from task creation on (SpecStop)
    stopAsked,       \* history: stop() was called on the monitor after its task was created
    \* ---- one symbol of OpenInterestMonitor, cycle after cycle (SpecOi)
    oiWorld,         \* the symbol's open interest at the exchange
    oi_history,      \* OpenInterestMonitor.oi_history[symbol]: samples with their age in minutes
    nchanges,        \* history: how often the open interest changed
    bigChange,       \* history: the last change was of at least threshold
    oiAlerts,        \* history: alerts for the symbol since the last change
    sinceChange,     \* history: cycles since the last change
    \* ---- one call of FundingRateMonitor.get_funding_rate_alerts (SpecFr)
    frpc,            \* where the call is: base, klines, oi, returned
    frThreshold,     \* self.threshold
    thresholdAtCall, \* history: self.threshold when the call started
    funding_data,    \* the premiumIndex answer, once received
    symbols_to_check,\* the local list of step 2
    frAlerts,        \* the local list `alerts`, and at the end the value returned
    frFailure,       \* history: the failure the call swallowed, or "none"
    \* ---- the history section of format_position_report (SpecPos)
    ppc,             \* where the call is: sort, loop, done
    events,          \* the local list `events`, one aggregated (symbol, side) each
    aggregated,      \* history: `events` as built, before the sort
    pidx,            \* the for loop's position in events
    buf,             \* the local string `buf`, as its header and event strings
    hparts           \* the history parts appended to `parts`

lifeVars == <<registry, pc, exit, running, session, created, closes, cancelReq,
              runs, stopReq, sleepsAfterStop, sup, sd, signalSeen>>

cfgVars == <<kind, attrs, prev, last>>

wlVars == <<wkind, watchlist, symbols, aliased, invalid_symbols, watch_ids,
            is_first_run, latest_tweet_ids, cpc, attempt, discovered, cyc, rt,
            mid>>

sdVars == <<updaterStopped, updaterStops, appStopped, appStops, appShutdowns,
            supSession, supCreated, supCloses>>

initVars == <<entries, enabled, bearer_token, idx, monitors, initErr, lookup>>

cmdVars == <<cmd>>

loopVars == <<lpc, minute, last_checked_minute, shadow, manual, inflight,
              gap, sleeps, sleepSeq, sleepUses, readSeq, thresholdUses>>

alertVars == <<nalerts, itemLen, apos, amsg, outbox, apc>>

\* The parts that came last.
bootVars == <<token, bconfig, boot, exitStatus, built, btasks, bchecked,
              bopened>>

detVars == <<origin, dpc, upstream, found, oiFetched, sendFailed, report>>

tickVars == <<tpc, fresh, prevMin, runInv, winInv, winTrig, lastOk, svpc, hour,
              last_checked_hour, prevHour, svRunInv>>

twVars == <<twpc, iterl, aliasIter, pos, alerts_to_send, tweet_of, latest, tried,
            owed, alerted, lastRes, lastQ, baseId, stale>>

askVars == <<stopAsked>>

\* The parts added last.
oiVars == <<oiWorld, oi_history, nchanges, bigChange, oiAlerts, sinceChange>>

\* The parts added last.
frVars == <<frpc, frThreshold, thresholdAtCall, funding_data, symbols_to_check,
           frAlerts, frFailure>>

posVars == <<ppc, events, aggregated, pidx, buf, hparts>>

lastVars == <<askVars, oiVars, frVars, posVars>>

lateVars == <<alertVars, bootVars, detVars, tickVars, twVars, lastVars>>

vars == <<lifeVars, cfgVars, wlVars, sdVars, initVars, cmdVars, loopVars,
          lateVars>>

\* What the actions of one part leave alone of the other parts.
notLife == <<cfgVars, wlVars, sdVars, initVars, cmdVars, loopVars, lateVars>>
notCfg == <<lifeVars, wlVars, sdVars, initVars, cmdVars, loopVars, lateVars>>
notWl == <<lifeVars, cfgVars, sdVars, initVars, cmdVars, loopVars, lateVars>>
notSd == <<cfgVars, wlVars, initVars, cmdVars, loopVars, lateVars>>
notInit == <<lifeVars, cfgVars, wlVars, sdVars, cmdVars, loopVars, lateVars>>
notLoop == <<lifeVars, wlVars, sdVars, initVars, cmdVars, lateVars>>
earlyVars == <<lifeVars, cfgVars, wlVars, sdVars, initVars, cmdVars, loopVars>>
notAlerts == <<earlyVars, bootVars, detVars, tickVars, twVars, lastVars>>
notBoot == <<earlyVars, alertVars, detVars, tickVars, twVars, lastVars>>
notDet == <<earlyVars, alertVars, bootVars, tickVars, twVars, lastVars>>
\* The tick part moves the clock and the marker of the run-loop cycle part.
notTick == <<lifeVars, cfgVars, wlVars, sdVars, initVars, cmdVars, lpc, shadow,
             manual, inflight, gap, sleeps, sleepSeq, sleepUses, readSeq,
             thresholdUses, alertVars, bootVars, detVars, twVars,
             lastVars>>
\* The Twitter cycle works on the watch list of the watchlist part.
notTw == <<lifeVars, cfgVars, wkind, watchlist, symbols, aliased,
           invalid_symbols, cpc, attempt, discovered, cyc, mid, sdVars,
           initVars, cmdVars, loopVars, alertVars, bootVars, detVars, tickVars,
           lastVars>>

\* ------------------------------------------------------------ run loop
Active == {"check", "notify", "sleep"}

\* A task that has been created and has not finished.
TaskLive(m) == pc[m] \in {"pending"} \cup Active

\* BaseMonitor._get_session: a session is created when there is none or the
\* current one is closed.
NeedsNewSession(m) == session[m] \in {"none", "closed"}

\* `while self._running` (the only place run() reads the flag).
LoopConditionAlways(m) == TRUE
LoopCondition(m) == running[m]

\* finally: `if self.session: await self.session.close()` (a session object
\* is truthy whether open or closed).
SessionAfterFinallyLeak(m) == session[m]
SessionAfterFinally(m) == IF session[m] # "none" THEN "closed" ELSE session[m]

ClosesAfterFinally(m) == IF session[m] # "none" THEN closes[m] + 1 ELSE closes[m]

\* run() leaves the loop: the finally block runs and the task finishes.
ExitRun(m, how) ==
    /\ pc' = [pc EXCEPT ![m] = "stopped"]
    /\ exit' = [exit EXCEPT ![m] = how]
    /\ session' = [session EXCEPT ![m] = SessionAfterFinally(m)]
    /\ closes' = [closes EXCEPT ![m] = ClosesAfterFinally(m)]

Alive == sup # "exited"

\* The task's first step: `self._running = True`, the loop test, and the
\* call of check() up to its first await.
RunStart(m) ==
    /\ Alive /\ pc[m] = "pending" /\ ~cancelReq[m]
    /\ running' = [running EXCEPT ![m] = TRUE]
    /\ pc' = [pc EXCEPT ![m] = "check"]
    /\ runs' = [runs EXCEPT ![m] = @ + 1]
    /\ UNCHANGED <<registry, exit, session, created, closes, cancelReq,
                   stopReq, sleepsAfterStop, sup, sd, signalSeen, notLife>>

\* check() issues a fetch_json: _get_session creates the session lazily.
CheckFetch(m) ==
    /\ Alive /\ pc[m] = "check" /\ ~cancelReq[m]
    /\ NeedsNewSession(m)
    /\ session' = [session EXCEPT ![m] = "open"]
    /\ created' = [created EXCEPT ![m] = @ + 1]
    /\ UNCHANGED <<registry, pc, exit, running, closes, cancelReq, runs,
                   stopReq, sleepsAfterStop, sup, sd, signalSeen, notLife>>

BeginSleep(m) ==
    /\ pc' = [pc EXCEPT ![m] = "sleep"]
    /\ sleepsAfterStop' = [sleepsAfterStop EXCEPT
                             ![m] = IF stopReq[m] /\ @ < 2 THEN @ + 1 ELSE @]

\* check() returns: the loop goes on to `await asyncio.sleep(self.interval)`.
CheckReturn(m) ==
    /\ Alive /\ pc[m] = "check" /\ ~cancelReq[m]
    /\ BeginSleep(m)
    /\ UNCHANGED <<registry, exit, running, session, created, closes,
                   cancelReq, runs, stopReq, sup, sd, signalSeen, notLife>>

\* check() raises an Exception: caught at `except Exception`, logged, and
\* the handler awaits send_message.
CheckRaise(m) ==
    /\ Alive /\ pc[m] = "check" /\ ~cancelReq[m]
    /\ pc' = [pc EXCEPT ![m] = "notify"]
    /\ UNCHANGED <<registry, exit, running, session, created, closes,
                   cancelReq, runs, stopReq, sleepsAfterStop, sup, sd,
                   signalSeen, notLife>>

\* The error notification was delivered: on to the sleep.
NotifyOk(m) ==
    /\ Alive /\ pc[m] = "notify" /\ ~cancelReq[m]
    /\ BeginSleep(m)
    /\ UNCHANGED <<registry, exit, running, session, created, closes,
                   cancelReq, runs, stopReq, sup, sd, signalSeen, notLife>>

\* send_message raises inside the except handler: nothing catches it, the
\* finally block runs and the exception ends the task.
NotifyFail(m) ==
    /\ Alive /\ pc[m] = "notify" /\ ~cancelReq[m]
    /\ ExitRun(m, "exception")
    /\ UNCHANGED <<registry, running, created, cancelReq, runs, stopReq,
                   sleepsAfterStop, sup, sd, signalSeen, notLife>>

\* The sleep is over: the loop test is evaluated; the next check() starts,
\* or the loop ends through the finally block.
SleepDone(m) ==
    /\ Alive /\ pc[m] = "sleep" /\ ~cancelReq[m]
    /\ IF LoopCondition(m)
         THEN /\ pc' = [pc EXCEPT ![m] = "check"]
              /\ UNCHANGED <<exit, session, closes>>
         ELSE ExitRun(m, "return")
    /\ UNCHANGED <<registry, running, created, cancelReq, runs, stopReq,
                   sleepsAfterStop, sup, sd, signalSeen, notLife>>

\* CancelledError is thrown into the task at its current await.  It is not
\* an Exception, so `except Exception` lets it pass and the finally block
\* runs.  A task cancelled before its first step never executes run().
DeliverCancel(m) ==
    /\ Alive /\ cancelReq[m] /\ TaskLive(m)
    /\ IF pc[m] = "pending"
         THEN /\ pc' = [pc EXCEPT ![m] = "stopped"]
              /\ exit' = [exit EXCEPT ![m] = "cancelled"]
              /\ UNCHANGED <<session, closes>>
         ELSE ExitRun(m, "cancelled")
    /\ cancelReq' = [cancelReq EXCEPT ![m] = FALSE]
    /\ UNCHANGED <<registry, running, created, runs, stopReq,
                   sleepsAfterStop, sup, sd, signalSeen, notLife>>

\* BaseMonitor.stop(): `if self._running: self._running = False`.
Stop(m) ==
    /\ Alive /\ m \in registry /\ sup # "init"
    /\ running' = [running EXCEPT ![m] = FALSE]
    /\ stopReq' = [stopReq EXCEPT
                     ![m] = @ \/ (running[m] /\ pc[m] \in Active)]
    /\ UNCHANGED <<registry, pc, exit, session, created, closes, cancelReq,
                   runs, sleepsAfterStop, sup, sd, signalSeen, notLife>>

MonitorStep(m) ==
    \/ RunStart(m)
    \/ CheckFetch(m)
    \/ CheckReturn(m)
    \/ CheckRaise(m)
    \/ NotifyOk(m)
    \/ NotifyFail(m)
    \/ SleepDone(m)
    \/ DeliverCancel(m)

\* ---------------------------------------------------------- supervisor
ShutdownKinds == {"signal", "finally"}

\* shutdown(): `for task in self.monitor_tasks: if not task.done(): task.cancel()`
CancelAll == [m \in Monitors |-> cancelReq[m] \/ TaskLive(m)]

AllTasksDone == \A m \in registry : pc[m] = "stopped"

\* run_async: one task per registered monitor is created; the signal
\* handlers are installed; run_async then awaits the application start-up.
StartAll ==
    /\ sup = "init"
    /\ pc' = [m \in Monitors |-> IF m \in registry THEN "pending" ELSE pc[m]]
    /\ sup' = "starting"
    /\ UNCHANGED <<registry, exit, running, session, created, closes,
                   cancelReq, runs, stopReq, sleepsAfterStop, sd, signalSeen, notLife>>

\* `if not self.monitor_tasks: await asyncio.Future()`, then
\* `await asyncio.gather(*self.monitor_tasks)`.
AwaitAfterStartGatherOnly == "gather"
AwaitAfterStart == IF registry = {} THEN "forever" ELSE "gather"

\* The application is up: with no tasks run_async awaits a Future that is
\* never resolved, otherwise it awaits gather(*monitor_tasks).
AppStarted ==
    /\ sup = "starting"
    /\ sup' = AwaitAfterStart
    /\ UNCHANGED <<registry, pc, exit, running, session, created, closes,
                   cancelReq, runs, stopReq, sleepsAfterStop, sd, signalSeen, notLife>>

\* gather(*monitor_tasks) without return_exceptions: it returns when every
\* task returned, and raises as soon as one task raised or was cancelled.
GatherEnds ==
    \/ \E m \in registry : pc[m] = "stopped" /\ exit[m] \in {"exception", "cancelled"}
    \/ AllTasksDone

\* The await of gather ends; the finally block calls shutdown(), which runs
\* to its first await: every unfinished task is cancelled.
GatherDone ==
    /\ sup = "gather" /\ GatherEnds
    /\ sup' = "finally"
    /\ cancelReq' = CancelAll
    /\ sd' = [sd EXCEPT !["finally"] = "app"]
    /\ UNCHANGED <<registry, pc, exit, running, session, created, closes,
                   runs, stopReq, sleepsAfterStop, signalSeen, notLife>>

\* A stop signal: the handler creates a task running shutdown(sig).
Signal ==
    /\ sup \in {"starting", "gather", "forever", "finally"}
    /\ sd["signal"] = "idle"
    /\ signalSeen' = TRUE
    /\ sd' = [sd EXCEPT !["signal"] = "begin"]
    /\ UNCHANGED <<registry, pc, exit, running, session, created, closes,
                   cancelReq, runs, stopReq, sleepsAfterStop, sup, notLife>>

\* The signal's shutdown task runs to its first await.
ShutdownBegin ==
    /\ Alive /\ sd["signal"] = "begin"
    /\ cancelReq' = CancelAll
    /\ sd' = [sd EXCEPT !["signal"] = "app"]
    /\ UNCHANGED <<registry, pc, exit, running, session, created, closes,
                   runs, stopReq, sleepsAfterStop, sup, signalSeen, notLife>>

\* updater.stop(), app.stop(), app.shutdown(): awaited, errors are logged.
ShutdownApp(k) ==
    /\ Alive /\ sd[k] = "app"
    /\ sd' = [sd EXCEPT ![k] = "join"]
    /\ UNCHANGED <<registry, pc, exit, running, session, created, closes,
                   cancelReq, runs, stopReq, sleepsAfterStop, sup, signalSeen, notLife>>

\* gather(*monitor_tasks, return_exceptions=True) returns once every task
\* is done; shutdown() returns.  When it is the call in run_async's finally
\* block, run_async returns and the event loop is closed.
ShutdownJoin(k) ==
    /\ Alive /\ sd[k] = "join" /\ AllTasksDone
    /\ sd' = [sd EXCEPT ![k] = "done"]
    /\ sup' = IF k = "finally" THEN "exited" ELSE sup
    /\ UNCHANGED <<registry, pc, exit, running, session, created, closes,
                   cancelReq, runs, stopReq, sleepsAfterStop, signalSeen, notLife>>

SupervisorStep ==
    \/ StartAll
    \/ AppStarted
    \/ GatherDone
    \/ Signal
    \/ ShutdownBegin
    \/ \E k \in ShutdownKinds : ShutdownApp(k)
    \/ \E k \in ShutdownKinds : ShutdownJoin(k)

\* A caller awaits run() again on an instance whose run() has finished:
\* run() has no guard, it sets the flag and enters the loop.
Rerun(m) ==
    /\ Alive /\ pc[m] = "stopped" /\ runs[m] > 0 /\ runs[m] < MaxRuns
    /\ running' = [running EXCEPT ![m] = TRUE]
    /\ pc' = [pc EXCEPT ![m] = "check"]
    /\ exit' = [exit EXCEPT ![m] = "none"]
    /\ runs' = [runs EXCEPT ![m] = @ + 1]
    /\ UNCHANGED <<registry, session, created, closes, cancelReq, stopReq,
                   sleepsAfterStop, sup, sd, signalSeen, notLife>>

\* ------------------------------------------------------ update_config
\* A Python string is a sequence of one-character strings.  A Python value
\* is a record: t its type, n its number (an int; a float in thousandths;
\* a bool as 0/1), s its characters or elements.
IntV(i) == [t |-> "int", n |-> i, s |-> <<>>]
FloatV(milli) == [t |-> "float", n |-> milli, s |-> <<>>]
BoolV(b) == [t |-> "bool", n |-> IF b THEN 1 ELSE 0, s |-> <<>>]
StrV(str) == [t |-> "str", n |-> 0, s |-> str]
ListV(elems) == [t |-> "list", n |-> 0, s |-> elems]
NoneV == [t |-> "none", n |-> 0, s |-> <<>>]
MethodV == [t |-> "method", n |-> 0, s |-> <<>>]

DigitChars == <<"0", "1", "2", "3", "4", "5", "6", "7", "8", "9">>
IsDigitChar(c) == \E i \in 1..Len(DigitChars) : DigitChars[i] = c
DigitVal(c) == (CHOOSE i \in 1..Len(DigitChars) : DigitChars[i] = c) - 1
IsDigitSeq(str) == \A i \in 1..Len(str) : IsDigitChar(str[i])

RECURSIVE DigitsToNat(_)
DigitsToNat(str) ==
    IF str = <<>> THEN 0
    ELSE DigitsToNat(SubSeq(str, 1, Len(str) - 1)) * 10 + DigitVal(str[Len(str)])

RECURSIVE NatToChars(_)
NatToChars(i) ==
    IF i < 10 THEN <<DigitChars[i + 1]>>
    ELSE NatToChars(i \div 10) \o <<DigitChars[(i % 10) + 1]>>

HasSign(str) == Len(str) > 0 /\ str[1] \in {"-", "+"}
Unsigned(str) == IF HasSign(str) THEN Tail(str) ELSE str
SignOf(str) == IF Len(str) > 0 /\ str[1] = "-" THEN -1 ELSE 1

Ok(v) == [ok |-> TRUE, v |-> v, err |-> "none"]
Err(e) == [ok |-> FALSE, v |-> NoneV, err |-> e]

\* int(value): an optional sign and one or more digits, else ValueError.
IntParse(str) ==
    LET u == Unsigned(str)
    IN  IF Len(u) > 0 /\ IsDigitSeq(u)
          THEN Ok(IntV(SignOf(str) * DigitsToNat(u)))
          ELSE Err("ValueError")

\* Position of the first "." of str, 0 when there is none.
DotAt(str) ==
    IF \E i \in 1..Len(str) : str[i] = "."
      THEN CHOOSE i \in 1..Len(str) :
             str[i] = "." /\ \A j \in 1..(i - 1) : str[j] # "."
      ELSE 0

\* float(value): sign, digits, an optional "." and digits (at least one
\* digit in all), else ValueError.  Kept to thousandths.
FloatParse(str) ==
    LET u == Unsigned(str)
        d == DotAt(u)
        ip == IF d = 0 THEN u ELSE SubSeq(u, 1, d - 1)
        fp == IF d = 0 THEN <<>> ELSE SubSeq(u, d + 1, Len(u))
        f3 == SubSeq(fp \o <<"0", "0", "0">>, 1, 3)
    IN  IF IsDigitSeq(ip) /\ IsDigitSeq(fp) /\ Len(ip) + Len(fp) > 0
          THEN Ok(FloatV(SignOf(str) * (DigitsToNat(ip) * 1000 + DigitsToNat(f3))))
          ELSE Err("ValueError")

\* attr_type(value) for attr_type = type(getattr(self, key)):
\* bool(str) is True for every non-empty string; list(str) is the list of
\* its characters; NoneType and the method type take no such argument.
Convert(type, str) ==
    CASE type = "int" -> IntParse(str)
      [] type = "float" -> FloatParse(str)
      [] type = "bool" -> Ok(BoolV(Len(str) > 0))
      [] type = "str" -> Ok(StrV(str))
      [] type = "list" -> Ok(ListV(str))
      [] OTHER -> Err("TypeError")

\* str.lower() on the letters that occur in the inputs.
LowerChar(c) == CASE c = "T" -> "t" [] c = "F" -> "f" [] OTHER -> c
Lower(str) == [i \in 1..Len(str) |-> LowerChar(str[i])]

\* Fractional digits of a float in thousandths, without trailing zeros.
FracChars(milli) ==
    LET d1 == milli \div 100
        d2 == (milli \div 10) % 10
        d3 == milli % 10
    IN  IF d3 # 0 THEN <<DigitChars[d1 + 1], DigitChars[d2 + 1], DigitChars[d3 + 1]>>
        ELSE IF d2 # 0 THEN <<DigitChars[d1 + 1], DigitChars[d2 + 1]>>
        ELSE <<DigitChars[d1 + 1]>>

Abs(i) == IF i < 0 THEN -i ELSE i

\* str(value), as in the reply's f"{new_value}".
ToStr(v) ==
    CASE v.t = "int" ->
           (IF v.n < 0 THEN <<"-">> ELSE <<>>) \o NatToChars(Abs(v.n))
      [] v.t = "float" ->
           (IF v.n < 0 THEN <<"-">> ELSE <<>>) \o NatToChars(Abs(v.n) \div 1000)
             \o <<".">> \o FracChars(Abs(v.n) % 1000)
      [] v.t = "bool" ->
           IF v.n = 1 THEN <<"T", "r", "u", "e">> ELSE <<"F", "a", "l", "s", "e">>
      [] v.t = "str" -> v.s
      [] OTHER -> <<"N", "o", "n", "e">>

\* PositionMonitor.update_config: the words taken for True and for False.
TrueWords == {<<"t", "r", "u", "e">>, <<"1">>, <<"y", "e", "s">>, <<"o", "n">>}
FalseWords == {<<"f", "a", "l", "s", "e">>, <<"0">>, <<"n", "o">>, <<"o", "f", "f">>}
BoolKeys == {"auto_report", "include_history"}

Kinds == {"funding", "position", "oi"}

\* The instance after construction with the constructors' defaults.
InitAttrs(k) ==
    CASE k = "funding" ->
           [interval |-> IntV(60), _running |-> BoolV(FALSE), session |-> NoneV,
            check |-> MethodV, threshold |-> FloatV(1)]
      [] k = "position" ->
           [interval |-> IntV(3600), _running |-> BoolV(FALSE), session |-> NoneV,
            check |-> MethodV, auto_report |-> BoolV(TRUE),
            include_history |-> BoolV(TRUE), testnet |-> BoolV(FALSE),
            history_days |-> IntV(1)]
      [] OTHER ->
           [interval |-> IntV(60), _running |-> BoolV(FALSE), session |-> NoneV,
            check |-> MethodV, threshold |-> FloatV(50), watchlist |-> NoneV]

\* The constructor parameters of each class that are kept as attributes.
ConfigFields(k) ==
    CASE k = "funding" -> {"interval", "threshold"}
      [] k = "position" -> {"interval", "auto_report", "include_history",
                            "testnet", "history_days"}
      [] OTHER -> {"interval", "threshold", "watchlist"}

\* The attributes each class's get_status() prints.
StatusFields(k) ==
    CASE k = "funding" -> {"_running", "threshold"}
      [] k = "position" -> {"_running", "interval", "auto_report",
                            "include_history", "history_days"}
      [] OTHER -> {"_running", "interval", "threshold", "watchlist"}

GetStatus(k, a) == [f \in StatusFields(k) |-> a[f]]

\* `except (ValueError, TypeError)`.
CaughtValueErrorOnly(e) == e = "ValueError"
Caught(e) == e \in {"ValueError", "TypeError"}

Outcome(a, reply, escaped) == [attrs |-> a, reply |-> reply, escaped |-> escaped]

\* BaseMonitor.update_config.
BaseUpdate(a, key, raw) ==
    IF key \notin DOMAIN a
      THEN Outcome(a, "invalid_key", FALSE)
      ELSE LET c == Convert(a[key].t, raw)
           IN  IF c.ok THEN Outcome([a EXCEPT ![key] = c.v], "ok", FALSE)
               ELSE IF Caught(c.err) THEN Outcome(a, "coercion_error", FALSE)
               ELSE Outcome(a, "none", TRUE)

\* PositionMonitor.update_config.
PositionUpdate(a, key, raw) ==
    IF key \in BoolKeys
      THEN IF Lower(raw) \in TrueWords
             THEN Outcome([a EXCEPT ![key] = BoolV(TRUE)], "ok", FALSE)
           ELSE IF Lower(raw) \in FalseWords
             THEN Outcome([a EXCEPT ![key] = BoolV(FALSE)], "ok", FALSE)
           ELSE Outcome(a, "invalid_bool", FALSE)
      ELSE BaseUpdate(a, key, raw)

UpdateResult(k, a, key, raw) ==
    IF k = "position" THEN PositionUpdate(a, key, raw) ELSE BaseUpdate(a, key, raw)

\* The keys and values tried: every attribute name of some class, a name
\* no class has, and strings as `/config <name> set <key> <value>` passes.
Keys == {"interval", "threshold", "auto_report", "include_history", "testnet",
         "history_days", "watchlist", "_running", "session", "check", "nokey"}
RawValues == {<<"1">>, <<"0">>, <<"-", "3">>, <<"2", ".", "5">>,
              <<"F", "a", "l", "s", "e">>, <<"f", "a", "l", "s", "e">>, <<"x">>}

NoCall == [called |-> FALSE, key |-> "nokey", raw |-> <<>>, reply |-> "none",
           escaped |-> FALSE]

\* What an update_config(key, raw) call does to the instance.
UpdateEffect(key, raw) ==
    /\ LET r == UpdateResult(kind, attrs, key, raw)
       IN  /\ attrs' = r.attrs
           /\ last' = [called |-> TRUE, key |-> key, raw |-> raw,
                       reply |-> r.reply, escaped |-> r.escaped]
    /\ prev' = attrs

UpdateConfig(key, raw) ==
    /\ UpdateEffect(key, raw)
    /\ UNCHANGED <<kind, notCfg>>

InitCfg ==
    /\ kind \in Kinds
    /\ attrs = InitAttrs(kind)
    /\ prev = attrs
    /\ last = NoCall

\* The instance the other specifications leave untouched.
IdleCfg ==
    /\ kind = "funding"
    /\ attrs = InitAttrs("funding")
    /\ prev = attrs
    /\ last = NoCall

\* ---------------------------------------------------------- watchlists
\* _initialize_symbols: `max_retries = 3`.
max_retries == 3

\* What /fapi/v1/exchangeInfo lists as perpetual contracts: some symbols,
\* or none at all.
Universe == <<"BTC", "ETH">>
FetchResults == {Universe, <<>>}

\* The fallback list of _initialize_symbols.
Fallback == <<"BTCUSDT", "ETHUSDT", "BNBUSDT", "ADAUSDT", "SOLUSDT",
              "DOTUSDT", "DOGEUSDT", "AVAXUSDT", "MATICUSDT", "LINKUSDT">>

\* The symbols the exchange answers HTTP 400 for.
Rejected == {"ETH", "XRP"}

\* The items a /config <name> add|remove command may carry.
Items == {"BTC", "xrp", "42"}
ItemsOf(k) == IF k = "tw" THEN {"42", "xrp"} ELSE {"BTC", "xrp"}

\* str.upper() and str.isdigit() on the items.
Upper(item) == CASE item = "xrp" -> "XRP" [] OTHER -> item
IsDigitStr(item) == item \in {"42", "7"}

SeqSet(q) == {q[i] : i \in 1..Len(q)}
Without(q, x) == SelectSeq(q, LAMBDA y : y # x)

NoneList == [none |-> TRUE, l |-> <<>>]
ListOf(q) == [none |-> FALSE, l |-> q]

\* `if self.watchlist`: neither None nor empty.
Truthy(w) == ~w.none /\ w.l # <<>>

\* check(): `[s for s in self.symbols if s not in self.invalid_symbols]` in
\* OpenInterestMonitor, self.symbols in PriceSpikeMonitor.
SymbolsToCheck(k, syms, inv) ==
    IF k = "oi" THEN SelectSeq(syms, LAMBDA y : y \notin inv) ELSE syms

NoPair == [phase |-> "none", item |-> "", all |-> FALSE, syms |-> {}]

\* History: the add or remove that returned success while check() was
\* suspended in an awaited call; none when check() is not under way.
NoMid == [op |-> "none", sym |-> ""]
MidAfter(op, sym) == IF cpc = "idle" THEN NoMid ELSE [op |-> op, sym |-> sym]

\* History: what the cycle under way set out to check.
NoCycle == [started |-> FALSE, checked |-> <<>>, wl |-> NoneList, uni |-> <<>>]

\* check() has its symbols and starts the per-symbol tasks.
StartTasks(syms, uni) ==
    /\ cpc' = "gather"
    /\ cyc' = [started |-> TRUE,
               checked |-> SymbolsToCheck(wkind, syms, invalid_symbols),
               wl |-> watchlist, uni |-> uni]

\* check() is called.  With symbols it goes straight to the tasks.
\* Without, _initialize_symbols runs: a watchlist becomes the symbols (the
\* same list object), otherwise the exchange is asked.
CheckBegin ==
    /\ wkind \in {"oi", "ps"} /\ cpc = "idle"
    /\ IF symbols # <<>>
         THEN /\ StartTasks(symbols, discovered)
              /\ UNCHANGED <<symbols, aliased, attempt, discovered>>
       ELSE IF Truthy(watchlist)
         THEN /\ symbols' = watchlist.l
              /\ aliased' = TRUE
              /\ StartTasks(watchlist.l, discovered)
              /\ UNCHANGED <<attempt, discovered>>
       ELSE /\ cpc' = "fetch"
            /\ attempt' = 0
            /\ UNCHANGED <<symbols, aliased, discovered, cyc>>
    /\ rt' = NoPair
    /\ UNCHANGED <<wkind, watchlist, invalid_symbols, watch_ids, is_first_run,
                   latest_tweet_ids, mid, notWl>>

\* After _initialize_symbols returned: `if not self.symbols` waits
\* interval * 5 and returns, otherwise the tasks start.
AfterInitialize(syms) ==
    IF syms = <<>>
      THEN cpc' = "nosym" /\ UNCHANGED cyc
      ELSE StartTasks(syms, syms)

\* The exchangeInfo fetch returns: self.symbols is replaced by its list.
FetchOk(u) ==
    /\ cpc = "fetch"
    /\ symbols' = u
    /\ aliased' = FALSE
    /\ discovered' = u
    /\ AfterInitialize(u)
    /\ rt' = NoPair
    /\ UNCHANGED <<wkind, watchlist, invalid_symbols, watch_ids, is_first_run,
                   latest_tweet_ids, attempt, mid, notWl>>

\* `if attempt < max_retries - 1` in the except branch.
MayRetryAlways(a) == TRUE
MayRetry(a) == a < max_retries - 1

\* The fetch fails: wait 5 s and retry, or after the last attempt install
\* the fallback list.
FetchFail ==
    /\ cpc = "fetch"
    /\ IF MayRetry(attempt)
         THEN /\ cpc' = "retry"
              /\ UNCHANGED <<symbols, aliased, discovered, cyc>>
         ELSE /\ symbols' = Fallback
              /\ aliased' = FALSE
              /\ discovered' = Fallback
              /\ AfterInitialize(Fallback)
    /\ rt' = NoPair
    /\ UNCHANGED <<wkind, watchlist, invalid_symbols, watch_ids, is_first_run,
                   latest_tweet_ids, attempt, mid, notWl>>

RetryWaitDone ==
    /\ cpc = "retry"
    /\ attempt' = attempt + 1
    /\ cpc' = "fetch"
    /\ rt' = NoPair
    /\ UNCHANGED <<wkind, watchlist, symbols, aliased, invalid_symbols,
                   watch_ids, is_first_run, latest_tweet_ids, discovered, cyc,
                   mid, notWl>>

\* The wait of interval * 5 is over: check() returns.
NoSymbolsWaitDone ==
    /\ cpc = "nosym"
    /\ cpc' = "idle"
    /\ rt' = NoPair
    /\ mid' = NoMid
    /\ UNCHANGED <<wkind, watchlist, symbols, aliased, invalid_symbols,
                   watch_ids, is_first_run, latest_tweet_ids, attempt,
                   discovered, cyc, notWl>>

\* The per-symbol tasks are done.  In OpenInterestMonitor the symbols that
\* answered HTTP 400 are now in invalid_symbols.
TasksDone(bad) ==
    /\ cpc = "gather"
    /\ bad \subseteq SeqSet(cyc.checked) \cap Rejected
    /\ wkind = "ps" => bad = {}
    /\ invalid_symbols' = invalid_symbols \cup bad
    /\ cpc' = "idle"
    /\ cyc' = NoCycle
    /\ rt' = NoPair
    /\ mid' = NoMid
    /\ UNCHANGED <<wkind, watchlist, symbols, aliased, watch_ids, is_first_run,
                   latest_tweet_ids, attempt, discovered, notWl>>

\* The mode and the instrument set of the instance, as get_status shows.
FullMode == IF wkind = "tw" THEN FALSE ELSE ~Truthy(watchlist)
Effective == IF wkind = "tw" THEN SeqSet(watch_ids) ELSE SeqSet(symbols)
Monitored(x) == x \in Effective \/ (wkind # "tw" /\ x \in SeqSet(watchlist.l))

\* History: a successful add of an item that was not monitored opens a
\* pair; the remove of the same item right after it closes the pair.
PairOpened(x) ==
    IF Monitored(x) THEN NoPair
    ELSE [phase |-> "added", item |-> x, all |-> FullMode, syms |-> Effective]
PairClosed(x) ==
    IF rt.phase = "added" /\ rt.item = x THEN [rt EXCEPT !.phase = "done"]
    ELSE NoPair

\* The watchlist remove_from_watchlist leaves: `if self.watchlist:` the
\* list without the symbol, otherwise the watchlist as it is.
WatchlistAfterRemove(w, sym) ==
    IF Truthy(w) THEN ListOf(Without(w.l, sym)) ELSE w

\* invalid_symbols after add_to_watchlist(sym): the early return for a
\* symbol that is in self.symbols comes before the removal, and
\* PriceSpikeMonitor has no such set.
InvalidAfterAdd(sym) ==
    IF wkind = "oi" /\ sym \notin SeqSet(symbols) THEN invalid_symbols \ {sym}
    ELSE invalid_symbols

\* OpenInterestMonitor / PriceSpikeMonitor.add_to_watchlist.
AddToWatchlist(item) ==
    /\ wkind \in {"oi", "ps"} /\ item \in ItemsOf(wkind)
    /\ LET sym == Upper(item)
           base == IF Truthy(watchlist) THEN watchlist.l ELSE symbols
           same == Truthy(watchlist) /\ aliased
       IN  IF sym \in SeqSet(symbols)
             THEN /\ rt' = NoPair
                  /\ invalid_symbols' = InvalidAfterAdd(sym)
                  /\ UNCHANGED <<watchlist, symbols, aliased, mid>>
             ELSE /\ watchlist' = ListOf(IF same THEN base \o <<sym, sym>>
                                         ELSE base \o <<sym>>)
                  /\ symbols' = IF same THEN base \o <<sym, sym>>
                                ELSE symbols \o <<sym>>
                  /\ aliased' = same
                  /\ invalid_symbols' = InvalidAfterAdd(sym)
                  /\ rt' = PairOpened(sym)
                  /\ mid' = MidAfter("add", sym)
    /\ UNCHANGED <<wkind, watch_ids, is_first_run, latest_tweet_ids, cpc,
                   attempt, discovered, cyc, notWl>>

\* OpenInterestMonitor / PriceSpikeMonitor.remove_from_watchlist.
RemoveFromWatchlist(item) ==
    /\ wkind \in {"oi", "ps"} /\ item \in ItemsOf(wkind)
    /\ LET sym == Upper(item)
       IN  IF sym \notin SeqSet(symbols)
             THEN /\ rt' = NoPair
                  /\ UNCHANGED <<watchlist, symbols, aliased, mid>>
             ELSE /\ watchlist' = WatchlistAfterRemove(watchlist, sym)
                  /\ symbols' = Without(symbols, sym)
                  /\ aliased' = FALSE
                  /\ rt' = PairClosed(sym)
                  /\ mid' = MidAfter("remove", sym)
    /\ UNCHANGED <<wkind, invalid_symbols, watch_ids, is_first_run,
                   latest_tweet_ids, cpc, attempt, discovered, cyc, notWl>>

\* TwitterMonitor.add_to_watchlist.
TwAddEffect(item) ==
    IF ~IsDigitStr(item) \/ item \in SeqSet(watch_ids)
      THEN /\ rt' = NoPair
           /\ UNCHANGED <<watch_ids, is_first_run>>
      ELSE /\ watch_ids' = watch_ids \o <<item>>
           /\ is_first_run' = TRUE
           /\ rt' = PairOpened(item)

TwAdd(item) ==
    /\ wkind = "tw" /\ item \in ItemsOf(wkind)
    /\ TwAddEffect(item)
    /\ UNCHANGED <<wkind, watchlist, symbols, aliased, invalid_symbols,
                   latest_tweet_ids, cpc, attempt, discovered, cyc, mid, notWl>>

\* TwitterMonitor.remove_from_watchlist.
TwRemoveEffect(item) ==
    IF item \notin SeqSet(watch_ids)
      THEN /\ rt' = NoPair
           /\ UNCHANGED <<watch_ids, latest_tweet_ids>>
      ELSE /\ watch_ids' = Without(watch_ids, item)
           /\ latest_tweet_ids' = latest_tweet_ids \ {item}
           /\ rt' = PairClosed(item)

TwRemove(item) ==
    /\ wkind = "tw" /\ item \in ItemsOf(wkind)
    /\ TwRemoveEffect(item)
    /\ UNCHANGED <<wkind, watchlist, symbols, aliased, invalid_symbols,
                   is_first_run, cpc, attempt, discovered, cyc, mid, notWl>>

\* The instance after construction: the configured watchlist (None by
\* default) or watch_ids ([] by default); everything else empty.
ConfiguredLists == {NoneList, ListOf(<<"BTC", "XRP">>)}
ConfiguredIds == {<<>>, <<"42">>}

InitWl ==
    /\ wkind \in {"oi", "ps", "tw"}
    /\ watchlist \in (IF wkind = "tw" THEN {NoneList} ELSE ConfiguredLists)
    /\ watch_ids \in (IF wkind = "tw" THEN ConfiguredIds ELSE {<<>>})
    /\ symbols = <<>>
    /\ aliased = FALSE
    /\ invalid_symbols = {}
    /\ is_first_run = TRUE
    /\ latest_tweet_ids = {}
    /\ cpc = "idle"
    /\ attempt = 0
    /\ discovered = <<>>
    /\ cyc = NoCycle
    /\ rt = NoPair
    /\ mid = NoMid

\* The instance the other specifications leave untouched.
IdleWl ==
    /\ InitWl
    /\ wkind = "oi"
    /\ watchlist = NoneList

\* ------------------------------------------- shutdown(), step by step
\* Spec takes the three application calls of shutdown() as one step and
\* leaves the resources out.  Here every await of shutdown() is a step, and
\* the calls it makes on the updater, the application and the supervisor's
\* own session are counted.

\* `self.app.updater.running`: true from start_polling() until a stop()
\* call has completed.
UpdaterRunning == sup \in {"gather", "forever", "finally"} /\ ~updaterStopped

\* The application dispatches commands to the handlers from app.start()
\* until a stop() call has completed.
AppUp == sup \in {"gather", "forever", "finally"} /\ ~appStopped

\* The monitor /funding addresses: self.monitors.get("funding_rate").
FundingMonitor == 1

\* shutdown() after the cancel loop: `if ... self.app.updater.running:
\* await self.app.updater.stop()`, otherwise straight on to
\* `await self.app.stop()`.
SdEnter(k) ==
    /\ cancelReq' = CancelAll
    /\ IF UpdaterRunning
         THEN /\ sd' = [sd EXCEPT ![k] = "updater"]
              /\ updaterStops' = updaterStops + 1
              /\ UNCHANGED appStops
         ELSE /\ sd' = [sd EXCEPT ![k] = "appstop"]
              /\ appStops' = appStops + 1
              /\ UNCHANGED updaterStops

\* The signal handler's shutdown task runs to its first await.
SdBegin ==
    /\ Alive /\ sd["signal"] = "begin"
    /\ SdEnter("signal")
    /\ UNCHANGED <<registry, pc, exit, running, session, created, closes,
                   runs, stopReq, sleepsAfterStop, sup, signalSeen,
                   updaterStopped, appStopped, appShutdowns, supSession,
                   supCreated, supCloses, notSd>>

\* The await of gather in run_async ends; the finally block calls
\* shutdown(), which runs to its first await.
SdGatherDone ==
    /\ sup = "gather" /\ GatherEnds
    /\ sup' = "finally"
    /\ SdEnter("finally")
    /\ UNCHANGED <<registry, pc, exit, running, session, created, closes,
                   runs, stopReq, sleepsAfterStop, signalSeen,
                   updaterStopped, appStopped, appShutdowns, supSession,
                   supCreated, supCloses, notSd>>

\* updater.stop() is over (returned, or raised and was logged): on to
\* `await self.app.stop()`.
SdUpdaterDone(k) ==
    /\ Alive /\ sd[k] = "updater"
    /\ updaterStopped' = TRUE
    /\ appStops' = appStops + 1
    /\ sd' = [sd EXCEPT ![k] = "appstop"]
    /\ UNCHANGED <<registry, pc, exit, running, session, created, closes,
                   cancelReq, runs, stopReq, sleepsAfterStop, sup, signalSeen,
                   updaterStops, appStopped, appShutdowns, supSession,
                   supCreated, supCloses, notSd>>

\* `if self.session and not self.session.closed`: while another close() is
\* being awaited the flag may read either way.
MayClose(seen) ==
    \/ supSession = "open"
    \/ supSession = "closing" /\ ~seen

\* The rest of shutdown() from `if self.monitor_tasks:` on, up to its next
\* await: the gather of the tasks, or with no tasks the session close, or
\* the return.
SdToJoin(k, seen) ==
    IF registry # {}
      THEN /\ sd' = [sd EXCEPT ![k] = "join"]
           /\ UNCHANGED <<sup, supSession, supCloses>>
    ELSE IF MayClose(seen)
      THEN /\ sd' = [sd EXCEPT ![k] = "close"]
           /\ supSession' = "closing"
           /\ supCloses' = supCloses + 1
           /\ UNCHANGED sup
    ELSE /\ sd' = [sd EXCEPT ![k] = "done"]
         /\ sup' = IF k = "finally" THEN "exited" ELSE sup
         /\ UNCHANGED <<supSession, supCloses>>

\* app.stop() is over.  It returned: on to `await self.app.shutdown()`.
\* It raised (a stop() on an application that is not running may): the
\* except clause logs it and app.shutdown() is skipped.
SdAppStopDone(k, raised, seen) ==
    /\ Alive /\ sd[k] = "appstop"
    /\ raised => appStopped
    /\ appStopped' = TRUE
    /\ IF raised
         THEN /\ SdToJoin(k, seen)
              /\ UNCHANGED appShutdowns
         ELSE /\ sd' = [sd EXCEPT ![k] = "appshut"]
              /\ appShutdowns' = appShutdowns + 1
              /\ UNCHANGED <<sup, supSession, supCloses>>
    /\ UNCHANGED <<registry, pc, exit, running, session, created, closes,
                   cancelReq, runs, stopReq, sleepsAfterStop, signalSeen,
                   updaterStopped, updaterStops, appStops, supCreated, notSd>>

\* app.shutdown() is over (returned, or raised and was logged).
SdAppShutdownDone(k, seen) ==
    /\ Alive /\ sd[k] = "appshut"
    /\ SdToJoin(k, seen)
    /\ UNCHANGED <<registry, pc, exit, running, session, created, closes,
                   cancelReq, runs, stopReq, sleepsAfterStop, signalSeen,
                   updaterStopped, updaterStops, appStopped, appStops,
                   appShutdowns, supCreated, notSd>>

\* gather(*monitor_tasks, return_exceptions=True) returns: the session
\* close, or the return.
SdJoinDone(k, seen) ==
    /\ Alive /\ sd[k] = "join" /\ AllTasksDone
    /\ IF MayClose(seen)
         THEN /\ sd' = [sd EXCEPT ![k] = "close"]
              /\ supSession' = "closing"
              /\ supCloses' = supCloses + 1
              /\ UNCHANGED sup
         ELSE /\ sd' = [sd EXCEPT ![k] = "done"]
              /\ sup' = IF k = "finally" THEN "exited" ELSE sup
              /\ UNCHANGED <<supSession, supCloses>>
    /\ UNCHANGED <<registry, pc, exit, running, session, created, closes,
                   cancelReq, runs, stopReq, sleepsAfterStop, signalSeen,
                   updaterStopped, updaterStops, appStopped, appStops,
                   appShutdowns, supCreated, notSd>>

\* session.close() is over: shutdown() returns.  When it is the call in
\* run_async's finally block, run_async returns.
SdCloseDone(k) ==
    /\ Alive /\ sd[k] = "close"
    /\ supSession' = "closed"
    /\ sd' = [sd EXCEPT ![k] = "done"]
    /\ sup' = IF k = "finally" THEN "exited" ELSE sup
    /\ UNCHANGED <<registry, pc, exit, running, session, created, closes,
                   cancelReq, runs, stopReq, sleepsAfterStop, signalSeen,
                   updaterStopped, updaterStops, appStopped, appStops,
                   appShutdowns, supCreated, supCloses, notSd>>

\* /funding: _funding_handler awaits manual_check() of the funding-rate
\* monitor, whose fetch_json calls _get_session.
ManualFetch ==
    /\ AppUp /\ FundingMonitor \in registry
    /\ NeedsNewSession(FundingMonitor)
    /\ session' = [session EXCEPT ![FundingMonitor] = "open"]
    /\ created' = [created EXCEPT ![FundingMonitor] = @ + 1]
    /\ UNCHANGED <<registry, pc, exit, running, closes, cancelReq, runs,
                   stopReq, sleepsAfterStop, sup, sd, signalSeen, notLife>>

\* /coin: _coin_handler calls BotRunner.fetch_json, whose _get_session
\* creates the supervisor's session when there is none or it is closed.
CoinFetch ==
    /\ AppUp /\ supSession \in {"none", "closed"}
    /\ supSession' = "open"
    /\ supCreated' = supCreated + 1
    /\ UNCHANGED <<lifeVars, updaterStopped, updaterStops, appStopped,
                   appStops, appShutdowns, supCloses, notSd>>

InitSd ==
    /\ updaterStopped = FALSE
    /\ updaterStops = 0
    /\ appStopped = FALSE
    /\ appStops = 0
    /\ appShutdowns = 0
    /\ supSession = "none"
    /\ supCreated = 0
    /\ supCloses = 0

\* ------------------------------------------------ _initialize_monitors
\* The keys of MONITOR_CLASSES.
MONITOR_CLASSES == {"funding_rate", "open_interest", "price_spike",
                    "spot_volume", "twitter_monitor"}

\* The entries a configuration file may hold under "monitors": two names
\* of MONITOR_CLASSES and the entry of the account-position monitor.
EntryNames == {"funding_rate", "twitter_monitor", "position_monitor"}

\* A JSON object has each key once: the entries are some of the names, in
\* any order.
Orders ==
    {q \in UNION {[1..n -> EntryNames] : n \in 0..Cardinality(EntryNames)} :
        \A i, j \in DOMAIN q : i # j => q[i] # q[j]}

\* monitor_class(**params): TwitterMonitor.__init__ raises ValueError
\* without a bearer_token; the other constructors only store their
\* parameters.
Construct(name) ==
    IF name = "twitter_monitor" /\ ~bearer_token THEN "ValueError" ELSE "ok"

\* `except Exception as e` around the construction.
CaughtAtInitNever(e) == FALSE
CaughtAtInit(e) == e \in {"ValueError", "TypeError", "KeyError"}

\* One iteration of `for name, monitor_config in ...items()`.
InitializeEntry ==
    /\ idx <= Len(entries) /\ initErr = "none"
    /\ LET name == entries[idx]
           out == Construct(name)
       IN  IF ~enabled[name] \/ name \notin MONITOR_CLASSES
             THEN /\ idx' = idx + 1
                  /\ UNCHANGED <<monitors, initErr>>
           ELSE IF out = "ok"
             THEN /\ monitors' = monitors \cup {name}
                  /\ idx' = idx + 1
                  /\ UNCHANGED initErr
           ELSE IF CaughtAtInit(out)
             THEN /\ idx' = idx + 1
                  /\ UNCHANGED <<monitors, initErr>>
           ELSE /\ initErr' = out
                /\ UNCHANGED <<idx, monitors>>
    /\ UNCHANGED <<entries, enabled, bearer_token, lookup, notInit>>

\* The handlers read the registry: _config_handler and _funding_handler
\* look a name up with self.monitors.get(name).
NoLookup == [name |-> "", found |-> FALSE]

ServeCommand(name) ==
    /\ idx > Len(entries) /\ initErr = "none"
    /\ lookup' = [name |-> name, found |-> name \in monitors]
    /\ UNCHANGED <<entries, enabled, bearer_token, idx, monitors, initErr,
                   notInit>>

InitInit ==
    /\ entries \in Orders
    /\ enabled \in [EntryNames -> BOOLEAN]
    /\ bearer_token \in BOOLEAN
    /\ idx = 1
    /\ monitors = {}
    /\ initErr = "none"
    /\ lookup = NoLookup

\* The configuration the other specifications leave untouched.
IdleInit ==
    /\ InitInit
    /\ entries = <<>>
    /\ enabled = [n \in EntryNames |-> FALSE]
    /\ bearer_token = FALSE

\* ------------------------------------------------------ _config_handler
\* update.message.text.split(): the command as its tokens.  len is the
\* number of tokens, name, action and arg are tokens 2 to 4 and value is
\* token 5 (as its characters); the tokens past len are empty.
CmdNames == {"funding_rate", "twitter_monitor", "nosuch", "<b"}
CmdActions == {"set", "add", "remove", "bogus"}
CmdArgs == {"interval", "42", "<b"}
CmdValues == {<<"0">>, <<"<", "b", ">">>}
MaxTokens == 5

Commands ==
    {c \in [len : 1..MaxTokens, name : CmdNames \cup {""},
            action : CmdActions \cup {""}, arg : CmdArgs \cup {""},
            value : CmdValues \cup {<<>>}] :
        /\ (c.name = "") <=> (c.len < 2)
        /\ (c.action = "") <=> (c.len < 3)
        /\ (c.arg = "") <=> (c.len < 4)
        /\ (c.value = <<>>) <=> (c.len < 5)
        /\ (c.action = "set" /\ c.len >= 5) => c.name # "twitter_monitor"}

\* A token that Telegram's HTML parse mode reads as the start of a tag.
HasMarkup(str) == \E i \in DOMAIN str : str[i] = "<"
TokenMarkup(tok) == tok \in {"<b"}

\* The instance registered under a name: the funding-rate monitor is the
\* instance of the update_config part, the twitter monitor the instance of
\* the watchlist part.  The record of the command being handled keeps, as
\* history, whether the call changed the funding-rate monitor, and
\* whether it changed the twitter monitor.
Handling(c, reply, wellformed) ==
    [pc |-> "reply", c |-> c, reply |-> reply, wellformed |-> wellformed,
     sent |-> 0, escaped |-> FALSE,
     changedFunding |-> attrs' # attrs,
     changedTwitter |-> \/ watch_ids' # watch_ids
                        \/ is_first_run' # is_first_run
                        \/ latest_tweet_ids' # latest_tweet_ids]

NoEffect == UNCHANGED <<attrs, prev, last, watch_ids, is_first_run,
                        latest_tweet_ids, rt>>

\* `except Exception as e` around the call of the monitor's method.
HandlerCatches(escaped) == escaped

\* monitor.update_config(parts[3], parts[4]) on the funding-rate monitor,
\* and the reply it returns: the failure replies quote the key and the
\* value as they came.
CmdSet(c) ==
    LET r == UpdateResult(kind, attrs, c.arg, c.value)
    IN  /\ UpdateEffect(c.arg, c.value)
        /\ UNCHANGED <<watch_ids, is_first_run, latest_tweet_ids, rt>>
        /\ cmd' = IF HandlerCatches(r.escaped)
                    THEN Handling(c, "error", TRUE)
                  ELSE IF r.reply = "ok"
                    THEN Handling(c, "ok", ~HasMarkup(ToStr(r.attrs[c.arg])))
                  ELSE IF r.reply = "invalid_key"
                    THEN Handling(c, "invalid_key", ~TokenMarkup(c.arg))
                  ELSE Handling(c, r.reply,
                                ~HasMarkup(c.value) /\ ~TokenMarkup(c.arg))

\* monitor.add_to_watchlist(parts[3]): the default of BaseMonitor on the
\* funding-rate monitor, TwitterMonitor's own on the twitter monitor.
CmdAdd(c) ==
    IF c.name = "twitter_monitor"
      THEN /\ TwAddEffect(c.arg)
           /\ UNCHANGED <<attrs, prev, last, latest_tweet_ids>>
           /\ cmd' = Handling(c, "add", TRUE)
      ELSE /\ NoEffect
           /\ cmd' = Handling(c, "unsupported", TRUE)

\* monitor.remove_from_watchlist(parts[3]); TwitterMonitor's "not in the
\* list" reply quotes the item as it came.
CmdRemove(c) ==
    IF c.name = "twitter_monitor"
      THEN /\ TwRemoveEffect(c.arg)
           /\ UNCHANGED <<attrs, prev, last, is_first_run>>
           /\ cmd' = Handling(c, "remove",
                              c.arg \in SeqSet(watch_ids) \/ ~TokenMarkup(c.arg))
      ELSE /\ NoEffect
           /\ cmd' = Handling(c, "unsupported", TRUE)

\* _config_handler from its start to the await of reply_html: fewer than
\* two tokens give the usage text, an unknown name the not-found message
\* (which quotes the name as it came), otherwise the action is dispatched.
ConfigCommand(c) ==
    /\ idx > Len(entries) /\ initErr = "none"
    /\ cmd.pc \in {"idle", "done"}
    /\ IF c.len < 2
         THEN NoEffect /\ cmd' = Handling(c, "usage", TRUE)
       ELSE IF c.name \notin monitors
         THEN NoEffect /\ cmd' = Handling(c, "notfound", ~TokenMarkup(c.name))
       ELSE IF c.len = 2
         THEN NoEffect /\ cmd' = Handling(c, "status", TRUE)
       ELSE IF c.action = "set" /\ c.len = 5 THEN CmdSet(c)
       ELSE IF c.action = "add" /\ c.len = 4 THEN CmdAdd(c)
       ELSE IF c.action = "remove" /\ c.len = 4 THEN CmdRemove(c)
       ELSE NoEffect /\ cmd' = Handling(c, "invalid", TRUE)
    /\ UNCHANGED <<kind, wkind, watchlist, symbols, aliased, invalid_symbols,
                   cpc, attempt, discovered, cyc, mid, lifeVars, sdVars, initVars,
                   loopVars, lateVars>>

\* The await of reply_html ends: the reply was sent, or Telegram rejected
\* the text (it cannot parse the markup) and reply_html raised; nothing in
\* the handler catches that.
ReplyDone ==
    /\ cmd.pc = "reply"
    /\ cmd' = IF cmd.wellformed
                THEN [cmd EXCEPT !.pc = "done", !.sent = 1]
                ELSE [cmd EXCEPT !.pc = "done", !.escaped = TRUE]
    /\ UNCHANGED <<lifeVars, cfgVars, wlVars, sdVars, initVars, loopVars,
                   lateVars>>

NoCommand ==
    [pc |-> "idle",
     c |-> [len |-> 1, name |-> "", action |-> "", arg |-> "", value |-> <<>>],
     reply |-> "none", wellformed |-> TRUE, sent |-> 0, escaped |-> FALSE,
     changedFunding |-> FALSE, changedTwitter |-> FALSE]

InitCmd == cmd = NoCommand

\* ------------------------------------- the funding-rate monitor's cycle
\* One FundingRateMonitor instance: its fields are attrs (interval,
\* threshold, _running), its run() task is at lpc.  The session and the
\* finally block of run() are the matter of the run loop part above.
MinuteValues == {0, 1, 30}
LoopKeys == {"interval", "threshold"}
LoopRaws == {<<"1">>, <<"x">>}

\* `minute in (0, 30)`.
OnHalfHour == minute \in {0, 30}

\* `minute in (0, 30) and minute != self.last_checked_minute`.
Triggers(lcm) == OnHalfHour /\ minute # lcm

\* last_checked_minute after the synchronous start of check().
CadenceAfterCheckNoReset(lcm) == IF Triggers(lcm) THEN minute ELSE lcm
CadenceAfterCheck(lcm) ==
    IF Triggers(lcm) THEN minute
    ELSE IF ~OnHalfHour THEN -1
    ELSE lcm

\* `await asyncio.sleep(self.interval)`: the argument is read when the
\* sleep starts.
SleepArgumentAtConstruction == InitAttrs("funding").interval
SleepArgument == attrs.interval

\* `abs(float(item['lastFundingRate'])) >= self.threshold`.
ThresholdRead == attrs.threshold

StartSleep ==
    /\ sleepUses' = SleepArgument
    /\ sleepSeq' = 1 - sleepSeq

\* What run() does after the except block.
AfterHandlerNextCheck == "check"
AfterHandler == "sleep"

\* run() calls check(): the clock is read, and either the half-hour check
\* is due and check() awaits _check_and_send_alerts(), or check() returns
\* at once and run() starts its sleep.
ScheduledCheck ==
    /\ last_checked_minute' = CadenceAfterCheck(last_checked_minute)
    /\ shadow' = CadenceAfterCheck(shadow)
    /\ gap' = IF gap = -2 THEN -1 ELSE sleeps
    /\ IF Triggers(last_checked_minute)
         THEN /\ lpc' = "alerts"
              /\ inflight' = inflight + 1
              /\ sleeps' = 0
              /\ UNCHANGED <<sleepSeq, sleepUses>>
         ELSE /\ lpc' = "sleep"
              /\ inflight' = inflight
              /\ sleeps' = 1
              /\ StartSleep

\* run(): `self._running = True`, then the first check().
LoopRunStart ==
    /\ lpc = "none"
    /\ attrs' = [attrs EXCEPT !._running = BoolV(TRUE)]
    /\ ScheduledCheck
    /\ UNCHANGED <<kind, prev, last, minute, manual, readSeq, thresholdUses,
                   notLoop>>

\* get_funding_rate_alerts of the scheduled check: the three requests
\* returned and the rates are compared with self.threshold, or a request
\* failed and the except returns [].
AlertsFetched(ok) ==
    /\ lpc = "alerts"
    /\ IF ok
         THEN /\ lpc' = "send"
              /\ thresholdUses' = ThresholdRead
              /\ readSeq' = 1 - readSeq
              /\ UNCHANGED <<inflight, sleeps, sleepSeq, sleepUses>>
         ELSE /\ lpc' = "sleep"
              /\ inflight' = inflight - 1
              /\ sleeps' = sleeps + 1
              /\ StartSleep
              /\ UNCHANGED <<readSeq, thresholdUses>>
    /\ UNCHANGED <<cfgVars, minute, last_checked_minute, shadow, manual, gap,
                   notLoop>>

\* The rest of _check_and_send_alerts returns and run() starts its sleep.
CheckReturns ==
    /\ lpc = "send"
    /\ lpc' = "sleep"
    /\ inflight' = inflight - 1
    /\ sleeps' = sleeps + 1
    /\ StartSleep
    /\ UNCHANGED <<cfgVars, minute, last_checked_minute, shadow, manual, gap,
                   readSeq, thresholdUses, notLoop>>

\* Sending the alerts raised: run() reports the error with send_message.
CheckRaises ==
    /\ lpc = "send"
    /\ lpc' = "notify"
    /\ inflight' = inflight - 1
    /\ UNCHANGED <<cfgVars, minute, last_checked_minute, shadow, manual, gap,
                   sleeps, sleepSeq, sleepUses, readSeq, thresholdUses,
                   notLoop>>

\* The error report was sent: run() goes on after the except block.
NotifySent ==
    /\ lpc = "notify"
    /\ IF AfterHandler = "sleep"
         THEN /\ lpc' = "sleep"
              /\ sleeps' = sleeps + 1
              /\ StartSleep
              /\ UNCHANGED <<last_checked_minute, shadow, inflight, gap>>
         ELSE ScheduledCheck
    /\ UNCHANGED <<cfgVars, minute, manual, readSeq, thresholdUses, notLoop>>

\* The error report raised too: the exception leaves run().
NotifyRaises ==
    /\ lpc = "notify"
    /\ lpc' = "done"
    /\ UNCHANGED <<cfgVars, minute, last_checked_minute, shadow, manual,
                   inflight, gap, sleeps, sleepSeq, sleepUses, readSeq,
                   thresholdUses, notLoop>>

\* The sleep is over: `while self._running` is read, and the next check()
\* starts or run() ends.
LoopSleepDone ==
    /\ lpc = "sleep"
    /\ IF attrs._running = BoolV(TRUE)
         THEN ScheduledCheck
         ELSE /\ lpc' = "done"
              /\ UNCHANGED <<last_checked_minute, shadow, inflight, gap,
                             sleeps, sleepSeq, sleepUses>>
    /\ UNCHANGED <<cfgVars, minute, manual, readSeq, thresholdUses, notLoop>>

\* stop().
LoopStop ==
    /\ attrs._running = BoolV(TRUE)
    /\ attrs' = [attrs EXCEPT !._running = BoolV(FALSE)]
    /\ UNCHANGED <<kind, prev, last, loopVars, notLoop>>

\* Time passes.
Tick(mi) ==
    /\ mi # minute
    /\ minute' = mi
    /\ UNCHANGED <<cfgVars, lpc, last_checked_minute, shadow, manual,
                   inflight, gap, sleeps, sleepSeq, sleepUses, readSeq,
                   thresholdUses, notLoop>>

\* What manual_check() does to last_checked_minute.
ManualCadenceAsCheck == CadenceAfterCheck(last_checked_minute)
ManualCadence == last_checked_minute

\* /funding: _funding_handler awaits manual_check(), which awaits
\* _check_and_send_alerts().
ManualCheck ==
    /\ manual = "idle"
    /\ manual' = "alerts"
    /\ last_checked_minute' = ManualCadence
    /\ UNCHANGED <<cfgVars, lpc, minute, shadow, inflight, gap, sleeps,
                   sleepSeq, sleepUses, readSeq, thresholdUses, notLoop>>

\* get_funding_rate_alerts of the manual check.
ManualFetched(ok) ==
    /\ manual = "alerts"
    /\ IF ok
         THEN /\ manual' = "send"
              /\ thresholdUses' = ThresholdRead
              /\ readSeq' = 1 - readSeq
         ELSE /\ manual' = "idle"
              /\ UNCHANGED <<readSeq, thresholdUses>>
    /\ UNCHANGED <<cfgVars, lpc, minute, last_checked_minute, shadow,
                   inflight, gap, sleeps, sleepSeq, sleepUses, notLoop>>

\* The manual check ends, by return or by an exception the handler catches.
ManualDone ==
    /\ manual = "send"
    /\ manual' = "idle"
    /\ UNCHANGED <<cfgVars, lpc, minute, last_checked_minute, shadow,
                   inflight, gap, sleeps, sleepSeq, sleepUses, readSeq,
                   thresholdUses, notLoop>>

InitLoop ==
    /\ lpc = "none"
    /\ minute \in MinuteValues
    /\ last_checked_minute = -1
    /\ shadow = -1
    /\ manual = "idle"
    /\ inflight = 0
    /\ gap = -2
    /\ sleeps = 0
    /\ sleepSeq = 0
    /\ sleepUses = NoneV
    /\ readSeq = 0
    /\ thresholdUses = NoneV

\* The monitor the other specifications leave untouched.
IdleLoop == InitLoop /\ minute = 1

\* -------------------------------------------------- _send_alerts_message
\* One call of _send_alerts_message on a batch of nalerts alerts whose
\* items all serialize to itemLen characters.  Lengths are in characters,
\* as len() counts them.
MaxAlerts == 17
ItemLens == {255, 262, 271}

\* `if len(message) + len(msg_part) > 4096`.
Ceiling == 4096
\* len("⚠️ <b>异常资金费率预警</b>\n\n")
HeaderLen == 20
\* len("⚠️ 消息过长，已截断部分内容...")
NoticeLen == 18

\* One turn of `for a in alerts`: the item is appended, or it does not fit,
\* the notice is appended and the loop is left.
AlertsLoopStep ==
    /\ apc = "loop" /\ apos <= nalerts
    /\ IF amsg.len + itemLen > Ceiling
         THEN /\ amsg' = [amsg EXCEPT !.len = @ + NoticeLen, !.notice = TRUE]
              /\ apc' = "send"
              /\ UNCHANGED apos
         ELSE /\ amsg' = [amsg EXCEPT !.len = @ + itemLen, !.items = @ + 1]
              /\ apos' = apos + 1
              /\ UNCHANGED apc
    /\ UNCHANGED <<nalerts, itemLen, outbox, notAlerts>>

\* The for loop ran out of items.
AlertsLoopEnd ==
    /\ apc = "loop" /\ apos > nalerts
    /\ apc' = "send"
    /\ UNCHANGED <<nalerts, itemLen, apos, amsg, outbox, notAlerts>>

\* `await self.send_message(message, parse_mode="HTML")`: Telegram takes a
\* text of at most 4096 characters and answers a longer one with an error,
\* which send_message raises.
AlertsSend ==
    /\ apc = "send"
    /\ IF amsg.len <= Ceiling
         THEN outbox' = Append(outbox, amsg) /\ apc' = "done"
         ELSE UNCHANGED outbox /\ apc' = "raised"
    /\ UNCHANGED <<nalerts, itemLen, apos, amsg, notAlerts>>

\* _check_and_send_alerts calls it `if alerts:`, with at least one alert.
InitAlerts ==
    /\ nalerts \in 1..MaxAlerts
    /\ itemLen \in ItemLens
    /\ apos = 1
    /\ amsg = [items |-> 0, len |-> HeaderLen, notice |-> FALSE]
    /\ outbox = <<>>
    /\ apc = "loop"

\* The batch the other specifications leave untouched.
IdleAlerts == InitAlerts /\ nalerts = 1 /\ itemLen = 262

\* ------------------------------------------------- the start of run_async
\* `if not token:` in _initialize_telegram_bot.
TokenMissingNever(tok) == FALSE
TokenMissing(tok) == ~tok

\* _initialize_telegram_bot: without a token sys.exit(1) raises SystemExit
\* in run_async, before its try block; asyncio.run lets it through and the
\* process ends with status 1.  With a token the application is built.
InitializeTelegramBot ==
    /\ boot = "start"
    /\ IF TokenMissing(token)
         THEN boot' = "exit" /\ exitStatus' = 1
         ELSE boot' = "bot" /\ UNCHANGED exitStatus
    /\ UNCHANGED <<token, bconfig, built, btasks, bchecked, bopened, notBoot>>

\* _initialize_monitors and _setup_handlers.
BootInitializeMonitors ==
    /\ boot = "bot"
    /\ built' = bconfig
    /\ boot' = "monitors"
    /\ UNCHANGED <<token, bconfig, exitStatus, btasks, bchecked, bopened,
                   notBoot>>

\* `self.monitor_tasks = [asyncio.create_task(m.run()) for m in ...]`.
BootCreateTasks ==
    /\ boot = "monitors"
    /\ btasks' = built
    /\ boot' = "running"
    /\ UNCHANGED <<token, bconfig, exitStatus, built, bchecked, bopened,
                   notBoot>>

\* A task runs: run() calls check().
BootCheck(name) ==
    /\ name \in btasks /\ name \notin bchecked
    /\ bchecked' = bchecked \cup {name}
    /\ UNCHANGED <<token, bconfig, boot, exitStatus, built, btasks, bopened,
                   notBoot>>

\* check() fetches: _get_session opens the monitor's session.
BootFetch(name) ==
    /\ name \in bchecked /\ name \notin bopened
    /\ bopened' = bopened \cup {name}
    /\ UNCHANGED <<token, bconfig, boot, exitStatus, built, btasks, bchecked,
                   notBoot>>

InitBoot ==
    /\ token \in BOOLEAN
    /\ bconfig \in SUBSET MONITOR_CLASSES
    /\ boot = "start"
    /\ exitStatus = -1
    /\ built = {}
    /\ btasks = {}
    /\ bchecked = {}
    /\ bopened = {}

IdleBoot == InitBoot /\ token /\ bconfig = {}

\* ----------------------------------------- one funding-rate detection run
\* _check_and_send_alerts from its call to its end, called by check() in
\* the run loop or by manual_check() in _funding_handler.
MaxFound == 2
Failures == {"network", "http", "malformed"}
Origins == {"scheduled", "manual"}

\* `except Exception as e: ... return []` around the whole body of
\* get_funding_rate_alerts.
Swallowed(f) == f \in Failures

NoFailure == [kind |-> "none", at |-> "none"]

\* A failure inside get_funding_rate_alerts: swallowed, the alerts are [];
\* otherwise it leaves _check_and_send_alerts.
DetFail(f) ==
    /\ upstream' = [kind |-> f, at |-> dpc]
    /\ found' = 0
    /\ dpc' = IF Swallowed(f) THEN "alerts" ELSE "raised"

\* The three base requests (premiumIndex, ticker/24hr, ticker/price) and
\* the parsing of their answers: n symbols are at or over the threshold.
DetBaseFetched(res, n) ==
    /\ dpc = "base"
    /\ IF res = "ok"
         THEN found' = n /\ dpc' = "klines" /\ UNCHANGED upstream
         ELSE DetFail(res)
    /\ UNCHANGED <<origin, oiFetched, sendFailed, report, notDet>>

\* The kline requests of the symbols found, gathered; with no symbol there
\* is nothing to await.
DetKlinesFetched(res) ==
    /\ dpc = "klines"
    /\ IF found = 0 \/ res = "ok"
         THEN /\ dpc' = (IF found = 0 THEN "alerts" ELSE "oi")
              /\ UNCHANGED <<found, upstream>>
         ELSE DetFail(res)
    /\ UNCHANGED <<origin, oiFetched, sendFailed, report, notDet>>

\* The openInterest request of the next symbol found, one after the other
\* in the for loop.
DetOpenInterestFetched(res) ==
    /\ dpc = "oi"
    /\ IF res = "ok"
         THEN /\ oiFetched' = oiFetched + 1
              /\ dpc' = IF oiFetched + 1 = found THEN "alerts" ELSE "oi"
              /\ UNCHANGED <<found, upstream>>
         ELSE DetFail(res) /\ UNCHANGED oiFetched
    /\ UNCHANGED <<origin, sendFailed, report, notDet>>

\* `if alerts:` _send_alerts_message, which may raise; otherwise the log
\* line "No high funding rates found at this time".
DetAlerts(sent) ==
    /\ dpc = "alerts"
    /\ IF found = 0
         THEN dpc' = "returned" /\ UNCHANGED sendFailed
         ELSE /\ sendFailed' = ~sent
              /\ dpc' = IF sent THEN "returned" ELSE "raised"
    /\ UNCHANGED <<origin, upstream, found, oiFetched, report, notDet>>

\* The caller: run() notifies the error when check() raised and otherwise
\* nothing more happens; _funding_handler edits its message to "check
\* completed" or, in its except, to "check failed".
DetCaller ==
    /\ dpc \in {"returned", "raised"}
    /\ report' =
         IF origin = "scheduled"
           THEN IF dpc = "raised" THEN "error_notification"
                ELSE IF found = 0 THEN "no_anomalies" ELSE "alerts"
           ELSE IF dpc = "raised" THEN "failed" ELSE "completed"
    /\ dpc' = "done"
    /\ UNCHANGED <<origin, upstream, found, oiFetched, sendFailed, notDet>>

InitDet ==
    /\ origin \in Origins
    /\ dpc = "base"
    /\ upstream = NoFailure
    /\ found = 0
    /\ oiFetched = 0
    /\ sendFailed = FALSE
    /\ report = "none"

IdleDet == InitDet /\ origin = "scheduled"

\* ------------------------------------------------- the time-bucket ticks
\* The scheduled check() calls of one FundingRateMonitor and of one
\* SpotVolumeMonitor, tick after tick.  Between two ticks the loop sleeps
\* interval seconds, and interval can be set to any number: the next tick
\* may fall in the same minute, later in the same half-hour window, or in
\* any later window.
Half(mi) == IF mi < 30 THEN 0 ELSE 1
Hours == {7, 8}
Count(b) == IF b THEN 1 ELSE 0

\* The sleep of FundingRateMonitor's loop ends at minute mi.
ClockAdvance(mi, fr) ==
    /\ tpc = "sleep"
    /\ fr \/ (Half(mi) = Half(minute) /\ mi >= minute)
    /\ minute' = mi
    /\ fresh' = fr
    /\ prevMin' = minute
    /\ tpc' = "due"
    /\ UNCHANGED <<last_checked_minute, runInv, winInv, winTrig, lastOk, svpc,
                   hour, last_checked_hour, prevHour, svRunInv, notTick>>

\* FundingRateMonitor.check(): the marker is written before
\* _check_and_send_alerts is awaited, which returns or raises.
TickCheck(ok) ==
    /\ tpc = "due"
    /\ LET inv == Triggers(last_checked_minute)
       IN  /\ last_checked_minute' = CadenceAfterCheck(last_checked_minute)
           /\ runInv' = IF ~OnHalfHour THEN 0
                        ELSE IF prevMin = minute THEN runInv + Count(inv)
                        ELSE Count(inv)
           /\ winInv' = IF fresh THEN Count(inv) ELSE winInv + Count(inv)
           /\ winTrig' = IF fresh THEN OnHalfHour ELSE winTrig \/ OnHalfHour
           /\ lastOk' = IF inv THEN ok ELSE lastOk
    /\ tpc' = "sleep"
    /\ UNCHANGED <<minute, fresh, prevMin, svpc, hour, last_checked_hour,
                   prevHour, svRunInv, notTick>>

\* The sleep of SpotVolumeMonitor's loop ends at hour h.
SvClockAdvance(h) ==
    /\ svpc = "sleep"
    /\ hour' = h
    /\ prevHour' = hour
    /\ svpc' = "due"
    /\ UNCHANGED <<minute, last_checked_minute, tpc, fresh, prevMin, runInv,
                   winInv, winTrig, lastOk, last_checked_hour, svRunInv,
                   notTick>>

\* `hour == 8 and hour != self.last_checked_hour`.
SvTriggers == hour = 8 /\ hour # last_checked_hour

\* SpotVolumeMonitor.check().
SvTickCheck ==
    /\ svpc = "due"
    /\ last_checked_hour' = IF SvTriggers THEN hour
                            ELSE IF hour # 8 THEN -1
                            ELSE last_checked_hour
    /\ svRunInv' = IF hour # 8 THEN 0
                   ELSE IF prevHour = 8 THEN svRunInv + Count(SvTriggers)
                   ELSE Count(SvTriggers)
    /\ svpc' = "sleep"
    /\ UNCHANGED <<minute, last_checked_minute, tpc, fresh, prevMin, runInv,
                   winInv, winTrig, lastOk, hour, prevHour, notTick>>

\* Both loops start with a check(): run() calls it before any sleep.
InitTick ==
    /\ tpc = "due"
    /\ fresh = TRUE
    /\ prevMin = -1
    /\ runInv = 0
    /\ winInv = 0
    /\ winTrig = FALSE
    /\ lastOk = TRUE
    /\ svpc = "due"
    /\ hour \in Hours
    /\ last_checked_hour = -1
    /\ prevHour = -1
    /\ svRunInv = 0

IdleTick == InitTick /\ hour = 7

\* ------------------------------------------- TwitterMonitor's check cycle
\* One TwitterMonitor: its check() user by user, the tweets the users post
\* meanwhile, and the /config add and remove commands, which run whenever
\* check() is suspended in an await.
TwUsers == {"42", "7"}
MaxTweet == 2
TwConfigured == {<<"42">>, <<"42", "7">>}

\* `self.latest_tweet_ids.get(user_id)`, 0 for None.
StoredId(u) == IF u \in latest_tweet_ids THEN tweet_of[u] ELSE 0

\* _fetch_latest_tweet: raises, returns None (no tweets) or the latest tweet.
Outcomes(u) == {"fail"} \cup (IF latest[u] = 0 THEN {"none"} ELSE {"ok"})

\* `except Exception` inside the loop body.
FetchCaught(res) == res = "fail"

\* check() is called: `alerts_to_send = []`, the for loop takes watch_ids.
TwCheckBegin ==
    /\ twpc = "idle"
    /\ twpc' = "loop"
    /\ iterl' = watch_ids
    /\ aliasIter' = TRUE
    /\ pos' = 1
    /\ alerts_to_send' = <<>>
    /\ UNCHANGED <<watch_ids, is_first_run, latest_tweet_ids, rt, tweet_of,
                   latest, tried, owed, alerted, lastRes, lastQ, baseId,
                   stale, notTw>>

\* One pass of the loop body: the fetch ends and the tweet is handled.
TwFetched(res) ==
    /\ twpc = "loop"
    /\ pos <= Len(iterl)
    /\ LET u == iterl[pos]
           id == latest[u]
       IN  /\ res \in Outcomes(u)
           /\ tried' = tried \cup {u}
           /\ lastRes' = res
           /\ baseId' = IF is_first_run /\ baseId[u] # -2
                          THEN [baseId EXCEPT ![u] = id] ELSE baseId
           /\ owed' = IF res = "ok" /\ u \in latest_tweet_ids /\ tweet_of[u] # id
                        THEN owed \cup {u} ELSE owed
           /\ IF res = "ok" /\ (is_first_run \/ StoredId(u) # id)
                THEN /\ latest_tweet_ids' = latest_tweet_ids \cup {u}
                     /\ tweet_of' = [tweet_of EXCEPT ![u] = id]
                ELSE UNCHANGED <<latest_tweet_ids, tweet_of>>
           /\ IF res = "ok" /\ ~is_first_run /\ StoredId(u) # id
                THEN /\ alerts_to_send' = Append(alerts_to_send, [u |-> u, id |-> id])
                     /\ lastQ' = [lastQ EXCEPT ![u] = id]
                ELSE /\ lastQ' = IF res = "ok" THEN [lastQ EXCEPT ![u] = 0] ELSE lastQ
                     /\ UNCHANGED alerts_to_send
    /\ twpc' = IF res = "fail" /\ ~FetchCaught(res) THEN "done" ELSE "loop"
    /\ pos' = pos + 1
    /\ UNCHANGED iterl
    /\ UNCHANGED <<watch_ids, is_first_run, rt, aliasIter, latest, alerted,
                   stale, notTw>>

\* The loop is over: the first-run return, or on to the sends.
TwLoopEnd ==
    /\ twpc = "loop"
    /\ pos > Len(iterl)
    /\ is_first_run' = FALSE
    /\ IF is_first_run \/ alerts_to_send = <<>>
         THEN /\ twpc' = "done"
              /\ alerts_to_send' = <<>>
         ELSE /\ twpc' = "send"
              /\ UNCHANGED alerts_to_send
    /\ lastRes' = IF is_first_run THEN "first" ELSE "looped"
    /\ UNCHANGED <<watch_ids, latest_tweet_ids, rt, iterl, aliasIter, pos,
                   tweet_of, latest, tried, owed, alerted, lastQ, baseId,
                   stale, notTw>>

\* `await self.send_message(alert, ...)` for the next alert: it returns, or
\* it raises and check() ends with the rest of the alerts unsent.
TwSend(ok) ==
    /\ twpc = "send"
    /\ LET a == Head(alerts_to_send)
       IN  IF ok
             THEN /\ alerted' = alerted \cup {a.u}
                  /\ baseId' = [baseId EXCEPT ![a.u] = -2]
                  /\ stale' = (stale \/ baseId[a.u] = a.id)
                  /\ alerts_to_send' = Tail(alerts_to_send)
                  /\ twpc' = IF Len(alerts_to_send) = 1 THEN "done" ELSE "send"
                  /\ lastRes' = "sent"
             ELSE /\ alerts_to_send' = <<>>
                  /\ twpc' = "done"
                  /\ lastRes' = "sendfail"
                  /\ UNCHANGED <<alerted, baseId, stale>>
    /\ UNCHANGED <<watch_ids, is_first_run, latest_tweet_ids, rt, iterl,
                   aliasIter, pos, tweet_of, latest, tried, owed, lastQ,
                   notTw>>

\* check() has returned or raised; run() goes to sleep.
TwCheckEnd ==
    /\ twpc = "done"
    /\ twpc' = "idle"
    /\ iterl' = <<>>
    /\ aliasIter' = TRUE
    /\ pos' = 1
    /\ tried' = {}
    /\ owed' = {}
    /\ alerted' = {}
    /\ lastRes' = "begin"
    /\ UNCHANGED <<watch_ids, is_first_run, latest_tweet_ids, rt,
                   alerts_to_send, tweet_of, latest, lastQ, baseId, stale, notTw>>

\* A watched or unwatched user posts a tweet.
TwPost(u) ==
    /\ latest[u] < MaxTweet
    /\ latest' = [latest EXCEPT ![u] = @ + 1]
    /\ UNCHANGED <<watch_ids, is_first_run, latest_tweet_ids, rt, twpc, iterl,
                   aliasIter, pos, alerts_to_send, tweet_of, tried, owed,
                   alerted, lastRes, lastQ, baseId, stale, notTw>>

\* add_to_watchlist: append() changes the list object the loop iterates.
TwCommandAdd(item) ==
    /\ IF ~IsDigitStr(item) \/ item \in SeqSet(watch_ids)
         THEN UNCHANGED <<watch_ids, is_first_run>>
         ELSE /\ watch_ids' = watch_ids \o <<item>>
              /\ is_first_run' = TRUE
    /\ iterl' = IF twpc = "loop" /\ aliasIter /\ watch_ids' # watch_ids
                  THEN Append(iterl, item) ELSE iterl
    /\ UNCHANGED <<latest_tweet_ids, rt, twpc, aliasIter, pos, alerts_to_send,
                   tweet_of, latest, tried, owed, alerted, lastRes, lastQ, baseId,
                   stale, notTw>>

\* remove_from_watchlist: watch_ids becomes a new list, the key is popped.
TwCommandRemove(item) ==
    /\ IF item \notin SeqSet(watch_ids)
         THEN UNCHANGED <<watch_ids, latest_tweet_ids>>
         ELSE /\ watch_ids' = Without(watch_ids, item)
              /\ latest_tweet_ids' = latest_tweet_ids \ {item}
    /\ tweet_of' = IF watch_ids' # watch_ids THEN [tweet_of EXCEPT ![item] = 0]
                   ELSE tweet_of
    /\ aliasIter' = IF twpc = "loop" /\ watch_ids' # watch_ids THEN FALSE
                    ELSE aliasIter
    /\ UNCHANGED <<is_first_run, rt, twpc, iterl, pos, alerts_to_send, latest,
                   tried, owed, alerted, lastRes, lastQ, baseId, stale, notTw>>

\* After construction: no stored id, is_first_run set (the watchlist part
\* holds the flag and the list).
InitTw ==
    /\ twpc = "idle"
    /\ iterl = <<>>
    /\ aliasIter = TRUE
    /\ pos = 1
    /\ alerts_to_send = <<>>
    /\ tweet_of = [u \in TwUsers |-> 0]
    /\ latest \in [TwUsers -> {0, 1}]
    /\ tried = {}
    /\ owed = {}
    /\ alerted = {}
    /\ lastRes = "begin"
    /\ lastQ = [u \in TwUsers |-> 0]
    /\ baseId = [u \in TwUsers |-> -1]
    /\ stale = FALSE

IdleTw == InitTw /\ latest = [u \in TwUsers |-> 0]

\* ------------------------------------ stop() from the task's creation on
\* BaseMonitor.stop() called at any time after run_async created the task,
\* the moment before run() executes its first statement included.
StopCall(m) ==
    /\ Alive /\ m \in registry /\ sup # "init"
    /\ running' = [running EXCEPT ![m] = FALSE]
    /\ stopReq' = [stopReq EXCEPT
                     ![m] = @ \/ (running[m] /\ pc[m] \in Active)]
    /\ stopAsked' = [stopAsked EXCEPT ![m] = TRUE]
    /\ UNCHANGED <<registry, pc, exit, session, created, closes, cancelReq,
                   runs, sleepsAfterStop, sup, sd, signalSeen, cfgVars, wlVars,
                   sdVars, initVars, cmdVars, loopVars, alertVars, bootVars,
                   detVars, tickVars, twVars, oiVars, frVars, posVars>>

InitAsk == stopAsked = [m \in Monitors |-> FALSE]

\* --------------------------------- OpenInterestMonitor, one symbol's cycles
\* _check_symbol for one symbol, cycle after cycle, with the open interest
\* the exchange reports changing between cycles.  Time is the age of the
\* samples in minutes.
threshold_percent == 5
max_history_minutes == 2
MaxChanges == 2
OiValues == {100, 102, 200}
Gaps == {1, 2}
MaxCount == 3

notOi == <<earlyVars, alertVars, bootVars, detVars, tickVars, twVars, askVars,
          frVars, posVars>>

\* `abs(oi_change) >= self.threshold`, with
\* oi_change = (current_oi - oldest_oi) / oldest_oi if oldest_oi else 0.
Exceeds(cur, old) ==
    old # 0 /\ Abs(cur - old) * 100 >= threshold_percent * old

\* The samples _check_symbol keeps: `t >= cutoff_time`, the cutoff being the
\* current time cut to the minute less max_history_minutes.  A sample of
\* exactly that many minutes ago stays or goes with the second of the hour.
Retained(h, keepEdge) ==
    SelectSeq(h, LAMBDA e : \/ e.age < max_history_minutes
                            \/ e.age = max_history_minutes /\ keepEdge)

Bump(n) == IF n < MaxCount THEN n + 1 ELSE n

\* One cycle's _check_symbol, mins minutes after the one before.
OiCheckSymbol(mins, keepEdge) ==
    LET aged == [i \in 1..Len(oi_history) |->
                    [oi_history[i] EXCEPT !.age = @ + mins]]
        h == Retained(Append(aged, [age |-> 0, v |-> oiWorld]), keepEdge)
        alert == Len(h) >= 2 /\ Exceeds(oiWorld, h[1].v)
    IN  /\ oi_history' = h
        /\ oiAlerts' = IF alert THEN Bump(oiAlerts) ELSE oiAlerts
        /\ sinceChange' = Bump(sinceChange)
        /\ UNCHANGED <<oiWorld, nchanges, bigChange, notOi>>

\* Between two cycles the open interest steps to another value.
OiChange(v) ==
    /\ oi_history # <<>>
    /\ oi_history[Len(oi_history)].age = 0
    /\ v # oiWorld
    /\ nchanges < MaxChanges
    /\ oiWorld' = v
    /\ nchanges' = nchanges + 1
    /\ bigChange' = Exceeds(v, oiWorld)
    /\ oiAlerts' = 0
    /\ sinceChange' = 0
    /\ UNCHANGED <<oi_history, notOi>>

InitOi ==
    /\ oiWorld \in OiValues
    /\ oi_history = <<>>
    /\ nchanges = 0
    /\ bigChange = FALSE
    /\ oiAlerts = 0
    /\ sinceChange = 0

IdleOi == InitOi /\ oiWorld = 100

\* ------------------------------ one call of get_funding_rate_alerts
\* FundingRateMonitor.get_funding_rate_alerts with the data it works on:
\* the premiumIndex items, the symbols selected, the alerts built and the
\* list returned.  Rates and thresholds are in units of 0.01 %.
MaxFunding == 3
FrSymbols == {"BTCUSDT", "ETHUSDT", "ETHBTC"}
Rates == {-3, 1, 2}
FrThresholds == {2, 3}

notFr == <<earlyVars, alertVars, bootVars, detVars, tickVars, twVars, askVars,
          oiVars, posVars>>

\* `item['symbol'].endswith('USDT')`
EndsWithUSDT(sym) == sym \in {"BTCUSDT", "ETHUSDT"}

\* The premiumIndex answers: one item a symbol.
FundingAnswers ==
    {q \in UNION {[1..n -> [symbol : FrSymbols, lastFundingRate : Rates]] :
                    n \in 0..MaxFunding} :
        \A i, j \in 1..Len(q) : q[i].symbol = q[j].symbol => i = j}

\* Step 2: the symbols of the items that end in USDT and whose rate is at or
\* over self.threshold, read when the loop runs.
HighRateSymbols(data, th) ==
    LET sel == SelectSeq(data, LAMBDA item :
                   /\ EndsWithUSDT(item.symbol)
                   /\ Abs(item.lastFundingRate) >= th)
    IN  [i \in 1..Len(sel) |-> sel[i].symbol]

\* Step 4's loop: the items whose symbol is in symbols_to_check, in the
\* order of funding_data.
ItemsToAlert(data, syms) ==
    SelectSeq(data, LAMBDA item : item.symbol \in SeqSet(syms))

\* `alerts.sort(key=lambda x: abs(x['funding_rate']), reverse=True)`: the
\* sort is stable, equal keys keep their order.
InsertAlert(q, a) ==
    LET k == Cardinality({i \in 1..Len(q) :
                             Abs(q[i].funding_rate) >= Abs(a.funding_rate)})
    IN  SubSeq(q, 1, k) \o <<a>> \o SubSeq(q, k + 1, Len(q))

RECURSIVE SortAlerts(_)
SortAlerts(q) ==
    IF q = <<>> THEN <<>>
    ELSE InsertAlert(SortAlerts(SubSeq(q, 1, Len(q) - 1)), q[Len(q)])

\* `except Exception as e: ... return []`
FrFail(f) ==
    /\ frFailure' = f
    /\ frAlerts' = <<>>
    /\ frpc' = "returned"

\* The end of step 4: sort and return.
FrFinish(q) ==
    /\ frAlerts' = SortAlerts(q)
    /\ frpc' = "returned"

\* The three gathered requests answer and steps 1 and 2 run.
FrBaseFetched(res, data) ==
    /\ frpc = "base"
    /\ IF res = "ok"
         THEN /\ funding_data' = data
              /\ symbols_to_check' = HighRateSymbols(data, frThreshold)
              /\ frpc' = "klines"
              /\ UNCHANGED <<frAlerts, frFailure>>
         ELSE FrFail(res) /\ UNCHANGED <<funding_data, symbols_to_check>>
    /\ UNCHANGED <<frThreshold, thresholdAtCall, notFr>>

\* Step 3: the gathered _fetch_price_changes calls answer; a failed kline
\* request leaves the gather as an exception.  Step 4 starts, and ends at
\* once when no item is to be alerted.
FrKlinesFetched(res) ==
    /\ frpc = "klines"
    /\ IF symbols_to_check = <<>> \/ res = "ok"
         THEN IF ItemsToAlert(funding_data, symbols_to_check) = <<>>
                THEN FrFinish(<<>>) /\ UNCHANGED frFailure
                ELSE frpc' = "oi" /\ UNCHANGED <<frAlerts, frFailure>>
         ELSE FrFail(res)
    /\ UNCHANGED <<frThreshold, thresholdAtCall, funding_data, symbols_to_check,
                   notFr>>

\* Step 4: the openInterest request of the next item to alert answers, the
\* alert is appended; after the last one the list is sorted and returned.
FrOpenInterestFetched(res) ==
    /\ frpc = "oi"
    /\ LET todo == ItemsToAlert(funding_data, symbols_to_check)
           item == todo[Len(frAlerts) + 1]
           q == Append(frAlerts, [symbol |-> item.symbol,
                                  funding_rate |-> item.lastFundingRate])
       IN  IF res = "ok"
             THEN IF Len(q) = Len(todo)
                    THEN FrFinish(q) /\ UNCHANGED frFailure
                    ELSE frAlerts' = q /\ UNCHANGED <<frpc, frFailure>>
             ELSE FrFail(res)
    /\ UNCHANGED <<frThreshold, thresholdAtCall, funding_data, symbols_to_check,
                   notFr>>

\* update_config('threshold', value) from a /config command, handled while
\* the call awaits one of its requests.
FrUpdateThreshold(th) ==
    /\ frpc \in {"base", "klines", "oi"}
    /\ th # frThreshold
    /\ frThreshold' = th
    /\ UNCHANGED <<frpc, thresholdAtCall, funding_data, symbols_to_check,
                   frAlerts, frFailure, notFr>>

InitFr ==
    /\ frpc = "base"
    /\ frThreshold \in FrThresholds
    /\ thresholdAtCall = frThreshold
    /\ funding_data = <<>>
    /\ symbols_to_check = <<>>
    /\ frAlerts = <<>>
    /\ frFailure = "none"

IdleFr == InitFr /\ frThreshold = 2

\* ------------------- the history section of format_position_report
\* PositionMonitor.format_position_report from the sort of the aggregated
\* events to the last history part.  A string is the sequence of the header
\* and event strings it was concatenated from; its length is the sum of
\* theirs.  An event string is 160 characters plus its symbol and numbers,
\* and at most 1421 plus the symbol.
MAX_LEN == 3500
Part2HeaderLen == 19
MaxEvents == 4
EventLens == {183, 1421}
EventTimes == {1, 2}

notPos == <<earlyVars, alertVars, bootVars, detVars, tickVars, twVars, askVars,
           oiVars, frVars>>

\* part2_header
Part2Header == [id |-> 0, time |-> 0, len |-> Part2HeaderLen]

\* The lists of aggregated events: one a (symbol, side) key, in the order of
\* symbol_side_stats, each with its last_time and the length of its string.
EventLists ==
    {q \in UNION {[1..n -> [id : 1..MaxEvents, time : EventTimes, len : EventLens]] :
                    n \in 0..MaxEvents} :
        \A i \in 1..Len(q) : q[i].id = i}

\* len() of a string
RECURSIVE StrLen(_)
StrLen(str) ==
    IF str = <<>> THEN 0 ELSE str[1].len + StrLen(Tail(str))

\* `events.sort(key=lambda x: x['time'], reverse=True)`: stable.
InsertEvent(q, e) ==
    LET k == Cardinality({i \in 1..Len(q) : q[i].time >= e.time})
    IN  SubSeq(q, 1, k) \o <<e>> \o SubSeq(q, k + 1, Len(q))

RECURSIVE SortEvents(_)
SortEvents(q) ==
    IF q = <<>> THEN <<>>
    ELSE InsertEvent(SortEvents(SubSeq(q, 1, Len(q) - 1)), q[Len(q)])

\* `if len(buf) + len(event_str) > MAX_LEN`
OverflowsNever(b, e) == FALSE
Overflows(b, e) == StrLen(b) + e.len > MAX_LEN

\* The sort, and `buf = part2_header`.
PosSort ==
    /\ ppc = "sort"
    /\ events' = SortEvents(events)
    /\ buf' = <<Part2Header>>
    /\ pidx' = 1
    /\ ppc' = "loop"
    /\ UNCHANGED <<aggregated, hparts, notPos>>

\* One pass of `for e in events`.
PosLoopStep ==
    /\ ppc = "loop"
    /\ pidx <= Len(events)
    /\ LET e == events[pidx]
       IN  IF Overflows(buf, e)
             THEN /\ hparts' = Append(hparts, buf)
                  /\ buf' = <<Part2Header, e>>
             ELSE /\ buf' = Append(buf, e)
                  /\ UNCHANGED hparts
    /\ pidx' = pidx + 1
    /\ UNCHANGED <<ppc, events, aggregated, notPos>>

\* After the loop: `if buf != part2_header: parts.append(buf)`.
PosLoopEnd ==
    /\ ppc = "loop"
    /\ pidx > Len(events)
    /\ hparts' = IF buf # <<Part2Header>> THEN Append(hparts, buf) ELSE hparts
    /\ ppc' = "done"
    /\ UNCHANGED <<events, aggregated, pidx, buf, notPos>>

InitPos ==
    /\ ppc = "sort"
    /\ events \in EventLists
    /\ aggregated = events
    /\ pidx = 1
    /\ buf = <<>>
    /\ hparts = <<>>

IdlePos == InitPos /\ events = <<>>

IdleLast == InitAsk /\ IdleOi /\ IdleFr /\ IdlePos

IdleLate == IdleAlerts /\ IdleBoot /\ IdleDet /\ IdleTick /\ IdleTw /\ IdleLast

\* ------------------------------------------------------ specifications
InitLife ==
    /\ registry \in SUBSET Monitors
    /\ pc = [m \in Monitors |-> "none"]
    /\ exit = [m \in Monitors |-> "none"]
    /\ running = [m \in Monitors |-> FALSE]
    /\ session = [m \in Monitors |-> "none"]
    /\ created = [m \in Monitors |-> 0]
    /\ closes = [m \in Monitors |-> 0]
    /\ cancelReq = [m \in Monitors |-> FALSE]
    /\ runs = [m \in Monitors |-> 0]
    /\ stopReq = [m \in Monitors |-> FALSE]
    /\ sleepsAfterStop = [m \in Monitors |-> 0]
    /\ sup = "init"
    /\ sd = [k \in ShutdownKinds |-> "idle"]
    /\ signalSeen = FALSE

\* The supervisor the other specifications leave untouched: nothing is
\* registered and run_async has not started.
IdleLife == InitLife /\ registry = {}

Init == InitLife /\ IdleCfg /\ IdleWl /\ InitSd /\ IdleInit /\ InitCmd /\ IdleLoop
    /\ IdleLate

Next ==
    \/ \E m \in Monitors : MonitorStep(m)
    \/ \E m \in Monitors : Stop(m)
    \/ SupervisorStep

Spec == Init /\ [][Next]_vars

\* The event loop runs every ready task: a task that can take a step
\* eventually takes it, and so does the supervisor.
Fairness ==
    /\ \A m \in Monitors : WF_vars(MonitorStep(m))
    /\ WF_vars(StartAll \/ AppStarted \/ GatherDone \/ ShutdownBegin
               \/ (\E k \in ShutdownKinds : ShutdownApp(k))
               \/ (\E k \in ShutdownKinds : ShutdownJoin(k)))

FairSpec == Spec /\ Fairness

NextRestart ==
    \/ Next
    \/ \E m \in Monitors : Rerun(m)

SpecRestart == Init /\ [][NextRestart]_vars

NextSd ==
    \/ \E m \in Monitors : MonitorStep(m)
    \/ \E m \in Monitors : Stop(m)
    \/ StartAll
    \/ AppStarted
    \/ Signal
    \/ SdBegin
    \/ SdGatherDone
    \/ \E k \in ShutdownKinds : SdUpdaterDone(k)
    \/ \E k \in ShutdownKinds, raised, seen \in BOOLEAN :
           SdAppStopDone(k, raised, seen)
    \/ \E k \in ShutdownKinds, seen \in BOOLEAN : SdAppShutdownDone(k, seen)
    \/ \E k \in ShutdownKinds, seen \in BOOLEAN : SdJoinDone(k, seen)
    \/ \E k \in ShutdownKinds : SdCloseDone(k)
    \/ ManualFetch
    \/ CoinFetch

SpecSd == Init /\ [][NextSd]_vars

InitInitSpec ==
    IdleLife /\ IdleCfg /\ IdleWl /\ InitSd /\ InitInit /\ InitCmd /\ IdleLoop
    /\ IdleLate

NextInit ==
    \/ InitializeEntry
    \/ \E name \in EntryNames : ServeCommand(name)

SpecInit == InitInitSpec /\ [][NextInit]_vars

\* The bot with a TwitterMonitor instance as the watchlist part and the
\* FundingRateMonitor instance as the update_config part.
InitCmdSpec ==
    /\ IdleLife /\ IdleCfg /\ InitSd /\ InitInit /\ InitCmd /\ IdleLoop
    /\ IdleLate
    /\ InitWl /\ wkind = "tw" /\ bearer_token
    /\ entries = <<"funding_rate", "twitter_monitor">>
    /\ ~enabled["position_monitor"]

NextCmd ==
    \/ InitializeEntry
    \/ \E c \in Commands : ConfigCommand(c)
    \/ ReplyDone

SpecCmd == InitCmdSpec /\ [][NextCmd]_vars

InitLoopSpec ==
    IdleLife /\ IdleCfg /\ IdleWl /\ InitSd /\ IdleInit /\ InitCmd /\ InitLoop
    /\ IdleLate

NextLoop ==
    \/ LoopRunStart
    \/ \E ok \in BOOLEAN : AlertsFetched(ok)
    \/ CheckReturns
    \/ CheckRaises
    \/ NotifySent
    \/ NotifyRaises
    \/ LoopSleepDone
    \/ LoopStop
    \/ \E mi \in MinuteValues : Tick(mi)
    \/ ManualCheck
    \/ \E ok \in BOOLEAN : ManualFetched(ok)
    \/ ManualDone
    \/ \E key \in LoopKeys, raw \in LoopRaws : UpdateConfig(key, raw)

SpecLoop == InitLoopSpec /\ [][NextLoop]_vars

\* Every part up to the run-loop cycle part, left untouched.
IdleEarly ==
    IdleLife /\ IdleCfg /\ IdleWl /\ InitSd /\ IdleInit /\ InitCmd /\ IdleLoop

InitAlertsSpec ==
    IdleEarly /\ InitAlerts /\ IdleBoot /\ IdleDet /\ IdleTick /\ IdleTw
    /\ IdleLast

NextAlerts == AlertsLoopStep \/ AlertsLoopEnd \/ AlertsSend

SpecAlerts == InitAlertsSpec /\ [][NextAlerts]_vars

InitBootSpec ==
    IdleEarly /\ IdleAlerts /\ InitBoot /\ IdleDet /\ IdleTick /\ IdleTw
    /\ IdleLast

NextBoot ==
    \/ InitializeTelegramBot
    \/ BootInitializeMonitors
    \/ BootCreateTasks
    \/ \E name \in MONITOR_CLASSES : BootCheck(name)
    \/ \E name \in MONITOR_CLASSES : BootFetch(name)

SpecBoot == InitBootSpec /\ [][NextBoot]_vars

InitDetSpec ==
    IdleEarly /\ IdleAlerts /\ IdleBoot /\ InitDet /\ IdleTick /\ IdleTw
    /\ IdleLast

Answers == {"ok"} \cup Failures

NextDet ==
    \/ \E res \in Answers, n \in 0..MaxFound : DetBaseFetched(res, n)
    \/ \E res \in Answers : DetKlinesFetched(res)
    \/ \E res \in Answers : DetOpenInterestFetched(res)
    \/ \E sent \in BOOLEAN : DetAlerts(sent)
    \/ DetCaller

SpecDet == InitDetSpec /\ [][NextDet]_vars

InitTickSpec ==
    /\ IdleLife /\ IdleCfg /\ IdleWl /\ InitSd /\ IdleInit /\ InitCmd /\ InitLoop
    /\ IdleAlerts /\ IdleBoot /\ IdleDet /\ InitTick /\ IdleTw /\ IdleLast

NextTick ==
    \/ \E mi \in MinuteValues, fr \in BOOLEAN : ClockAdvance(mi, fr)
    \/ \E ok \in BOOLEAN : TickCheck(ok)
    \/ \E h \in Hours : SvClockAdvance(h)
    \/ SvTickCheck

SpecTick == InitTickSpec /\ [][NextTick]_vars

InitTwSpec ==
    /\ IdleLife /\ IdleCfg /\ InitSd /\ IdleInit /\ InitCmd /\ IdleLoop
    /\ wkind = "tw"
    /\ watchlist = NoneList
    /\ watch_ids \in TwConfigured
    /\ symbols = <<>>
    /\ aliased = FALSE
    /\ invalid_symbols = {}
    /\ is_first_run = TRUE
    /\ latest_tweet_ids = {}
    /\ cpc = "idle"
    /\ attempt = 0
    /\ discovered = <<>>
    /\ cyc = NoCycle
    /\ rt = NoPair
    /\ mid = NoMid
    /\ IdleAlerts /\ IdleBoot /\ IdleDet /\ IdleTick /\ InitTw /\ IdleLast

NextTw ==
    \/ TwCheckBegin
    \/ \E res \in {"fail", "none", "ok"} : TwFetched(res)
    \/ TwLoopEnd
    \/ \E ok \in BOOLEAN : TwSend(ok)
    \/ TwCheckEnd
    \/ \E u \in TwUsers : TwPost(u)
    \/ \E item \in TwUsers : TwCommandAdd(item)
    \/ \E item \in TwUsers : TwCommandRemove(item)

SpecTw == InitTwSpec /\ [][NextTw]_vars

NextStop ==
    \/ \E m \in Monitors : MonitorStep(m)
    \/ \E m \in Monitors : StopCall(m)
    \/ SupervisorStep

SpecStop == Init /\ [][NextStop]_vars

InitOiSpec == IdleEarly /\ IdleAlerts /\ IdleBoot /\ IdleDet /\ IdleTick /\ IdleTw
    /\ InitAsk /\ InitOi /\ IdleFr /\ IdlePos

NextOi ==
    \/ \E mins \in Gaps, keepEdge \in BOOLEAN : OiCheckSymbol(mins, keepEdge)
    \/ \E v \in OiValues : OiChange(v)

SpecOi == InitOiSpec /\ [][NextOi]_vars

InitFrSpec == IdleEarly /\ IdleAlerts /\ IdleBoot /\ IdleDet /\ IdleTick /\ IdleTw
    /\ InitAsk /\ IdleOi /\ InitFr /\ IdlePos

NextFr ==
    \/ \E res \in Answers, data \in FundingAnswers : FrBaseFetched(res, data)
    \/ \E res \in Answers : FrKlinesFetched(res)
    \/ \E res \in Answers : FrOpenInterestFetched(res)
    \/ \E th \in FrThresholds : FrUpdateThreshold(th)

SpecFr == InitFrSpec /\ [][NextFr]_vars

InitPosSpec == IdleEarly /\ IdleAlerts /\ IdleBoot /\ IdleDet /\ IdleTick /\ IdleTw
    /\ InitAsk /\ IdleOi /\ IdleFr /\ InitPos

NextPos == PosSort \/ PosLoopStep \/ PosLoopEnd

SpecPos == InitPosSpec /\ [][NextPos]_vars

InitCfgSpec == IdleLife /\ InitCfg /\ IdleWl /\ InitSd /\ IdleInit /\ InitCmd /\ IdleLoop
    /\ IdleLate

NextCfg == \E key \in Keys, raw \in RawValues : UpdateConfig(key, raw)

SpecCfg == InitCfgSpec /\ [][NextCfg]_vars

InitWlSpec == IdleLife /\ IdleCfg /\ InitWl /\ InitSd /\ IdleInit /\ InitCmd /\ IdleLoop
    /\ IdleLate

NextWl ==
    \/ CheckBegin
    \/ \E u \in FetchResults : FetchOk(u)
    \/ FetchFail
    \/ RetryWaitDone
    \/ NoSymbolsWaitDone
    \/ \E bad \in SUBSET Rejected : TasksDone(bad)
    \/ \E item \in Items : AddToWatchlist(item)
    \/ \E item \in Items : RemoveFromWatchlist(item)
    \/ \E item \in Items : TwAdd(item)
    \/ \E item \in Items : TwRemove(item)

SpecWl == InitWlSpec /\ [][NextWl]_vars

\* ============================================================== claims
\* C1 (as claimed): a failed cycle, or a failed error report, never makes
\* the run loop leave Running: a run() that has ended was ended by stop()
\* or by cancellation, never by an exception.
C1_FailedCycleNeverEndsLoop ==
    \A m \in Monitors : pc[m] = "stopped" => exit[m] \in {"return", "cancelled"}

\* C2 (as claimed): nothing inside another monitor's task cancels a
\* monitor: a monitor's task is cancelled only after a stop signal.
C2_CancelledOnlyBySignal ==
    \A m \in Monitors : (cancelReq[m] \/ exit[m] = "cancelled") => signalSeen

C5_StoppedIsTerminal ==
    [][\A m \in Monitors : pc[m] = "stopped" => pc'[m] = "stopped"]_vars

\* What a caller may take for a failure reply of update_config.
FailureReplies == {"invalid_key", "coercion_error", "invalid_bool"}

\* The strings among RawValues that are literals of each type (written out,
\* not computed by the parsers above).
IntLiterals == {<<"1">>, <<"0">>, <<"-", "3">>}
FloatLiterals == IntLiterals \cup {<<"2", ".", "5">>}
BoolWords == {<<"1">>, <<"0">>, <<"F", "a", "l", "s", "e">>, <<"f", "a", "l", "s", "e">>}

\* Whether raw can be converted to what the field key of a k-monitor holds.
Convertible(k, key, type, raw) ==
    IF k = "position" /\ key \in BoolKeys THEN raw \in BoolWords
    ELSE CASE type = "int" -> raw \in IntLiterals
           [] type = "float" -> raw \in FloatLiterals
           [] type \in {"bool", "str", "list"} -> TRUE
           [] OTHER -> FALSE

ValidValues(type) ==
    CASE type = "int" -> {IntV(1)}
      [] type = "float" -> {FloatV(2500)}
      [] type = "bool" -> {BoolV(FALSE)}
      [] OTHER -> {}
StrForms(v) == IF v.t = "bool" THEN {ToStr(v), Lower(ToStr(v))} ELSE {ToStr(v)}

\* C7 (as claimed): for every configuration field and every value valid
\* for its type, update_config(key, str(value)) succeeds, the field then
\* holds exactly that value, and get_status() shows it.
C7_ValidUpdateIsReflected ==
    (last.called /\ last.key \in ConfigFields(kind)) =>
        \A v \in ValidValues(prev[last.key].t) :
            last.raw \in StrForms(v) =>
                /\ last.reply = "ok"
                /\ attrs[last.key] = v
                /\ last.key \in StatusFields(kind)
                /\ GetStatus(kind, attrs)[last.key] = v

\* C8 (as claimed): interval > 0 in every reachable state.
C8_IntervalPositive ==
    attrs["interval"].t = "int" /\ attrs["interval"].n > 0


\* C9: on a list-based monitor, adding an item that is not monitored and
\* removing it right after restores the instrument set and the watchlist
\* mode the monitor had before the add (full-universe mode stays
\* full-universe mode), whenever the pair is invoked.
C9_AddRemoveRoundTrip ==
    rt.phase = "done" => (FullMode = rt.all /\ Effective = rt.syms)

\* C10: when a check cycle of OpenInterestMonitor or PriceSpikeMonitor
\* starts, the symbols it checks are the watchlist if a non-empty watchlist
\* is present, and the full discovered universe if it is absent.
C10_CycleChecksWatchlistOrUniverse ==
    cyc.started =>
        SeqSet(cyc.checked) = IF Truthy(cyc.wl) THEN SeqSet(cyc.wl.l)
                              ELSE SeqSet(cyc.uni)


\* C11: shutdown() is idempotent: when it is invoked twice, one after the
\* other or overlapping (the signal handler's task and the call in
\* run_async's finally block), no resource is closed twice: the updater and
\* the application are stopped at most once, the application is shut down
\* at most once, and the supervisor's session is closed at most once.
C11_ShutdownIdempotent ==
    /\ updaterStops <= 1
    /\ appStops <= 1
    /\ appShutdowns <= 1
    /\ supCloses <= 1

\* C12: once shutdown has completed, every session that a monitor or the
\* supervisor ever created has been closed, and closed once, also when a
\* /funding or /coin command fetched after the owning run loop had ended.
C12_SessionsClosedOnce ==
    sup = "exited" =>
        /\ \A m \in Monitors : session[m] # "open" /\ closes[m] = created[m]
        /\ supSession \notin {"open", "closing"} /\ supCloses = supCreated


\* C13: shutdown is cooperative: a run loop that is in a check(), an error
\* report or a sleep is cancelled only after stop() was requested on its
\* monitor (and the grace period has passed).
C13_CancelOnlyAfterStop ==
    [][\A m \in Monitors :
         (~cancelReq[m] /\ cancelReq'[m] /\ pc[m] \in Active) => ~running[m]]_vars

C15_FailureOmitsOnlyThatMonitor ==
    /\ initErr = "none"
    /\ idx > Len(entries) =>
         \A i \in DOMAIN entries :
            (enabled[entries[i]] /\ entries[i] \in MONITOR_CLASSES
                /\ Construct(entries[i]) = "ok") => entries[i] \in monitors

\* C15 witness: the twitter_monitor entry failed to construct and an
\* enabled entry after it is registered.
C15_Witness ==
    /\ idx > Len(entries) /\ ~bearer_token
    /\ \E i, j \in DOMAIN entries :
         /\ i < j /\ entries[i] = "twitter_monitor" /\ enabled[entries[i]]
         /\ entries[j] = "funding_rate" /\ entries[j] \in monitors
    /\ "twitter_monitor" \notin monitors

\* The monitor types the specification names, as configuration entries.
SpecifiedTypes == MONITOR_CLASSES \cup {"position_monitor"}

\* C16: after initialization the registry holds exactly the enabled
\* entries of a specified monitor type whose construction succeeds, and
\* serving commands leaves it as it is.
C16_RegistryIsEnabledEntries ==
    idx > Len(entries) =>
        monitors = {entries[i] : i \in
                      {j \in DOMAIN entries :
                         /\ enabled[entries[j]]
                         /\ entries[j] \in SpecifiedTypes
                         /\ Construct(entries[j]) = "ok"}}

\* C17: for every /config command text no exception escapes
\* _config_handler and exactly one reply is sent; an unknown monitor name
\* or malformed arguments (wrong action, wrong number of tokens) give a
\* usage or not-found message and change no monitor; a command addressed
\* to one monitor never changes the other.
UnknownName(c) == c.len >= 2 /\ c.name \notin monitors
Malformed(c) ==
    \/ c.len < 2
    \/ /\ c.len >= 3
       /\ ~ \/ c.action = "set" /\ c.len = 5
            \/ c.action \in {"add", "remove"} /\ c.len = 4
C17_ConfigHandlerNeverRaises ==
    cmd.pc = "done" =>
        /\ ~cmd.escaped
        /\ cmd.sent = 1
        /\ (UnknownName(cmd.c) \/ Malformed(cmd.c)) =>
               /\ cmd.reply \in {"usage", "notfound", "invalid"}
               /\ ~cmd.changedFunding /\ ~cmd.changedTwitter
        /\ cmd.c.name = "funding_rate" => ~cmd.changedTwitter
        /\ cmd.c.name = "twitter_monitor" => ~cmd.changedFunding

\* C18: within one monitor the scheduled cycles are sequential: never are
\* two check() invocations of the run loop in flight, and between two
\* consecutive check() invocations of the run loop there is exactly one
\* sleep; only a manual check may overlap a scheduled one.
C18_ScheduledCyclesSequential == inflight <= 1 /\ gap \in {-2, -1, 1}
C18_Witness ==
    /\ gap = 1 /\ inflight = 1 /\ manual = "send"
    /\ sleeps = 0 /\ sleepSeq = 1

\* C19: a manual check changes neither last_checked_minute nor the running
\* flag nor interval, and last_checked_minute is at every moment what the
\* scheduled checks alone made it, so the scheduled loop triggers or skips
\* its half-hour check as it would have without the manual check.
C19_ManualLeavesCadence ==
    [][/\ manual' # manual =>
             /\ last_checked_minute' = last_checked_minute
             /\ attrs'._running = attrs._running
             /\ attrs'.interval = attrs.interval
       /\ last_checked_minute' = shadow'
       /\ Triggers(last_checked_minute)' <=> Triggers(shadow)']_vars
C19_Witness ==
    /\ manual = "send" /\ lpc = "alerts" /\ last_checked_minute = 30
    /\ gap = 1

\* C20: after a successful update_config of interval or threshold, every
\* sleep that starts takes the new interval and every comparison with the
\* threshold reads the new threshold.
UpdatedOk(key) == last.called /\ last.reply = "ok" /\ last.key = key
C20_UpdateVisibleToNextCycle ==
    [][/\ (UpdatedOk("interval") /\ sleepSeq' # sleepSeq) =>
             /\ sleepUses' = attrs.interval
             /\ sleepUses' = UpdateResult(kind, prev, "interval", last.raw).attrs.interval
       /\ (UpdatedOk("threshold") /\ readSeq' # readSeq) =>
             /\ thresholdUses' = attrs.threshold
             /\ thresholdUses' =
                  UpdateResult(kind, prev, "threshold", last.raw).attrs.threshold]_vars
C20_Witness ==
    /\ UpdatedOk("interval") /\ lpc = "sleep"
    /\ sleepUses = IntV(1) /\ prev.interval = IntV(60)
    /\ thresholdUses = FloatV(1000)

\* C21: an add_to_watchlist(X) or remove_from_watchlist(X) that returned
\* success while check() was suspended in an awaited call (the fetch and
\* the retry sleep of _initialize_symbols included) holds when that
\* check() completes: X is, respectively is not, in the effective
\* instrument set, and the watchlist and the symbols agree on X.
C21_MutationSurvivesSuspendedCheck ==
    [][(cpc # "idle" /\ cpc' = "idle" /\ mid.op # "none") =>
          /\ (mid.op = "add") <=> (mid.sym \in Effective')
          /\ Truthy(watchlist') =>
                ((mid.sym \in SeqSet(watchlist'.l)) <=> (mid.sym \in SeqSet(symbols')))]_vars

\* C22: when the serialized text of a batch of alerts exceeds 4096
\* characters, _send_alerts_message delivers messages that split at item
\* boundaries and every item of the batch is in exactly one of them.
ItemsIn(msgs) == IF msgs = <<>> THEN 0 ELSE msgs[1].items
C22_SplitKeepsEveryAlert ==
    (apc \in {"done", "raised"} /\ HeaderLen + nalerts * itemLen > Ceiling) =>
        /\ apc = "done"
        /\ ItemsIn(outbox) = nalerts
        /\ \A i \in DOMAIN outbox : outbox[i].len <= Ceiling /\ ~outbox[i].notice

\* C24: without a Telegram token run_async ends the process with a nonzero
\* exit status before any monitor is constructed and before any monitor
\* task is created: no check() runs and no session is opened.
C24_MissingTokenIsFatalAtStartup ==
    ~token =>
        /\ built = {} /\ btasks = {} /\ bchecked = {} /\ bopened = {}
        /\ boot # "start" => (boot = "exit" /\ exitStatus > 0)
C24_Witness == ~token /\ boot = "exit" /\ exitStatus = 1 /\ bconfig # {}

\* C23: an upstream failure (network or HTTP error, malformed data) during
\* a funding-rate detection run is never reported as "no anomalies": in a
\* scheduled cycle it leaves check() and the run loop notifies the error,
\* in a manual /funding run the issuer gets a failure reply and not a
\* completion reply.
C23_UpstreamFailureIsReported ==
    (dpc = "done" /\ upstream.kind # "none") =>
        report = IF origin = "scheduled" THEN "error_notification" ELSE "failed"

\* C25: every constructor parameter of a monitor can be changed after
\* construction by some update_config(key, value) call that returns success
\* and leaves the parameter holding a value of its original kind.
C25_EveryParameterMutable ==
    \A f \in ConfigFields(kind) :
        \E raw \in RawValues :
            LET r == UpdateResult(kind, attrs, f, raw)
            IN  /\ r.reply = "ok"
                /\ r.attrs[f] # attrs[f]
                /\ r.attrs[f].t = InitAttrs(kind)[f].t

C27_OncePerHalfHourWindow ==
    (tpc = "sleep" /\ winTrig) => winInv = 1

\* C28: a TwitterMonitor cycle run with is_first_run set queues and sends
\* no alert and records each successfully fetched latest id; otherwise an
\* alert is queued for a user exactly when the fetched id differs from the
\* stored id, and the stored id becomes the fetched id before any send, so
\* that two consecutive fetches of the same id for a user give at most one
\* alert for it; a failed fetch leaves the loop running for the other users.
C28_LastSeenDeduplication ==
    [][/\ (twpc = "loop" /\ pos' = pos + 1) =>
            LET u == iterl[pos]
                id == latest[u]
                queued == alerts_to_send' # alerts_to_send
            IN  /\ is_first_run => ~queued
                /\ lastRes' = "ok" /\ is_first_run =>
                       (u \in latest_tweet_ids' /\ tweet_of'[u] = id)
                /\ ~is_first_run =>
                       (queued <=> (lastRes' = "ok" /\ StoredId(u) # id))
                /\ queued => /\ u \in latest_tweet_ids' /\ tweet_of'[u] = id
                             /\ twpc # "send"
                             /\ lastQ[u] # id
                /\ twpc' = "loop"
       /\ (twpc = "loop" /\ twpc' # "loop" /\ is_first_run) =>
            (twpc' = "done" /\ alerted' = {})
       /\ (twpc = "loop" /\ twpc' # "loop") => tried = SeqSet(iterl)
      ]_vars

\* C29: when a user has a stored id and a cycle's fetch for that user
\* returns another id, an alert about that tweet has been sent when the
\* cycle is over (no send having failed), whatever add_to_watchlist and
\* remove_from_watchlist calls were made.
C29_EveryNewTweetNotified ==
    (twpc = "done" /\ lastRes # "sendfail") => owed \subseteq alerted

\* C30: the first alert about a user is never about the tweet that was the
\* user's latest when a first-run cycle handled the user.
C30_NoAlertOnBaselineTweet == ~stale

\* C31: in OpenInterestMonitor a symbol that answered HTTP 400 is in
\* invalid_symbols and is left out of the cycles that start afterwards; an
\* add_to_watchlist of such a symbol takes it out of invalid_symbols, and
\* nothing but add_to_watchlist of the symbol takes it out.
C31_AddRevivesInvalidSymbol ==
    [][wkind = "oi" =>
         /\ \A item \in ItemsOf(wkind) :
               Upper(item) \in invalid_symbols =>
                  Upper(item) \notin InvalidAfterAdd(Upper(item))
         /\ \A sym \in invalid_symbols \ invalid_symbols' :
               sym \in SeqSet(symbols') \ SeqSet(symbols)
         /\ (cpc # "gather" /\ cpc' = "gather") =>
               SeqSet(cyc'.checked) \cap invalid_symbols = {}
      ]_vars

\* C32: in OpenInterestMonitor and PriceSpikeMonitor no symbol occurs
\* twice in symbols or in watchlist, whatever cycles, adds and removes
\* happened, and add_to_watchlist of a symbol that is on the watchlist
\* changes nothing.
NoDuplicate(q) == \A i, j \in 1..Len(q) : q[i] = q[j] => i = j
C32_NoDuplicateSymbols ==
    [][(wkind # "tw") =>
         /\ NoDuplicate(symbols') /\ NoDuplicate(watchlist'.l)
         /\ (cpc' = cpc /\ Len(symbols') > Len(symbols)) =>
               symbols'[Len(symbols')] \notin SeqSet(watchlist.l)
      ]_vars

\* C33: a monitor's _running flag, which get_status shows, is true exactly
\* while its run() loop is active, also after the task was cancelled and
\* after an exception left the loop.
C33_RunningFlagAccurate ==
    \A m \in Monitors : running[m] <=> pc[m] \in Active

\* C34: once stop() was called on a monitor whose task exists, run() not
\* having executed a statement yet included, the monitor starts no check()
\* any more.
C34_StopRequestNeverLost ==
    [][\A m \in Monitors :
         stopAsked[m] => ~(pc[m] # "check" /\ pc'[m] = "check")]_vars

\* C35: `/config <name> set <key> <value>` changes declared configuration
\* parameters only: the _running flag, the session and every other
\* attribute that is no constructor parameter keep their values.
C35_CommandsLeavePlumbingAlone ==
    [][\A f \in DOMAIN attrs \ ConfigFields(kind) : attrs'[f] = attrs[f]]_vars

\* C36: after a stop signal run_async eventually returns, whatever the
\* size of the registry, the empty one included, and it returns only when
\* every monitor task has finished.
C36_SignalEndsRunAsync ==
    /\ signalSeen ~> (sup = "exited")
    /\ [](sup = "exited" => AllTasksDone)

\* C37: _initialize_symbols without a watchlist makes at most max_retries
\* fetch attempts with a wait between them, ends at the first success, and
\* after the last failure installs the 10-symbol fallback list; with a
\* non-empty watchlist it fetches nothing.
C37_SymbolDiscoveryTerminates ==
    [][/\ attempt' < max_retries
       /\ (cpc = "idle" /\ cpc' = "fetch") => ~Truthy(watchlist)
       /\ (cpc = "idle" /\ Truthy(watchlist)) => cpc' \in {"idle", "gather"}
       /\ (cpc = "fetch" /\ cpc' = "retry") => attempt < max_retries - 1
       /\ (cpc = "retry" /\ cpc' # "retry") =>
              (cpc' = "fetch" /\ attempt' = attempt + 1)
       /\ (cpc = "fetch" /\ cpc' \notin {"fetch", "retry"}) =>
              /\ cpc' \in {"gather", "nosym"}
              /\ \/ symbols' \in FetchResults
                 \/ /\ attempt = max_retries - 1
                    /\ symbols' = Fallback
                    /\ Len(symbols') = 10
      ]_vars

\* C37 witness: the third attempt failed and the fallback list is checked.
C37_Witness ==
    attempt = max_retries - 1 /\ cpc = "gather" /\ symbols = Fallback

\* C38: when a symbol's open interest makes one step change of at least
\* threshold between two cycles and stays as it is, exactly one alert
\* names the symbol: one in the first cycle after the change and none in
\* the cycles that follow.
C38_OneAlertPerChange ==
    (nchanges = 1 /\ bigChange /\ sinceChange >= 1) => oiAlerts = 1

\* C39: get_funding_rate_alerts returns exactly one alert for each item of
\* the funding data whose symbol ends in USDT and whose rate is, in absolute
\* value, at or over the threshold in force when the call started, no alert
\* for any other symbol, and the alerts in order of non-increasing absolute
\* rate.
C39_OneAlertPerHighRate ==
    frpc = "returned" =>
        /\ \A i \in 1..Len(funding_data) :
              LET item == funding_data[i]
                  n == Cardinality({k \in 1..Len(frAlerts) :
                                       frAlerts[k].symbol = item.symbol})
              IN  n = IF /\ EndsWithUSDT(item.symbol)
                         /\ Abs(item.lastFundingRate) >= thresholdAtCall
                        THEN 1 ELSE 0
        /\ \A k \in 1..Len(frAlerts) :
              \E i \in 1..Len(funding_data) :
                  /\ funding_data[i].symbol = frAlerts[k].symbol
                  /\ funding_data[i].lastFundingRate = frAlerts[k].funding_rate
        /\ \A k \in 1..(Len(frAlerts) - 1) :
              Abs(frAlerts[k].funding_rate) >= Abs(frAlerts[k + 1].funding_rate)

\* The events of a history part, and of all parts in their order.
EventsOf(part) == SubSeq(part, 2, Len(part))
RECURSIVE Flatten(_)
Flatten(ps) ==
    IF ps = <<>> THEN <<>> ELSE EventsOf(ps[1]) \o Flatten(Tail(ps))

\* C40: format_position_report splits the history only at event
\* boundaries: every aggregated event is in exactly one history part, the
\* events follow each other in descending time order across the parts,
\* every history part starts with the section header and holds at least
\* one event, and when the header and any single event fit in 3500
\* characters no history part is longer than that.
C40_SplitAtEventBoundaries ==
    ppc = "done" =>
        LET all == Flatten(hparts)
        IN  /\ \A i \in 1..Len(aggregated) :
                  Cardinality({k \in 1..Len(all) : all[k] = aggregated[i]}) = 1
            /\ Len(all) = Len(aggregated)
            /\ \A k \in 1..(Len(all) - 1) : all[k].time >= all[k + 1].time
            /\ \A p \in 1..Len(hparts) :
                  /\ hparts[p][1] = Part2Header
                  /\ Len(hparts[p]) >= 2
                  /\ \A k \in 2..Len(hparts[p]) : hparts[p][k] # Part2Header
            /\ (\A i \in 1..Len(aggregated) :
                    Part2HeaderLen + aggregated[i].len <= MAX_LEN)
                => \A p \in 1..Len(hparts) : StrLen(hparts[p]) <= MAX_LEN
C40_Witness ==
    /\ ppc = "done"
    /\ Len(hparts) >= 2
    /\ \E i, j \in 1..Len(aggregated) : i < j /\ aggregated[i].time < aggregated[j].time

====
